---- MODULE Spec2Model ----
(***************************************************************************)
(* gidget: filesystem event triggered script executor.                     *)
(* A model of the daemon's configuration/watch-registration loop, its      *)
(* inotify read/wait loop with the signal traps, and the per-event worker  *)
(* (script executor, mail emitter, grandchild status handling).            *)
(***************************************************************************)
EXTENDS Integers, Sequences, FiniteSets, TLC

(***************************************************************************)
(* Bounds of the model.                                                    *)
(***************************************************************************)
MaxLines == 2      \* configuration lines read by the load loop
MaxEvents == 2     \* event records the kernel generates in one run
MaxSignals == 2    \* signals delivered to the daemon in one run
MaxOut == 3        \* bytes a grandchild writes to the pipe

(***************************************************************************)
(* Program constants.                                                      *)
(***************************************************************************)
SIGHUP == 1
SIGINT == 2
SIGTERM == 15
EXIT_SUCCESS == 0
EXIT_FAILURE == 1
EventHdr == 16     \* sizeof(struct inotify_event)
IN_CREATE == 256
IN_UNMOUNT == 8192
IN_Q_OVERFLOW == 16384
IN_IGNORED == 32768
maxScriptLen == 256
maxEmailLen == 36

\* sysconf(_SC_LINE_MAX) and sysconf(_SC_LOGIN_NAME_MAX) of the system
LINE_MAX == 2048
LOGIN_NAME_MAX == 256
\* a line limit scaled down to the short strings of the event-loop model
ShortLineMax == 20

VARIABLES
    opt,           \* opts_t: the options the loop reads (log2file)
    dpc,           \* daemon position: load, top, read, eintr, got, exited
    dstatus,       \* daemon exit status, -1 while it runs
    dlog,          \* text of the daemon's last logx line
    lineNo,        \* configuration lines read so far
    trickHeap,     \* the table of tricks; trickCount is its length
    maxNameLen,    \* running maximum of pathconf(_PC_NAME_MAX)
    maxLineLen,    \* int maxLineLen = sysconf(_SC_LINE_MAX)
    confFile,      \* the configuration file, as the pieces it is made of
    confPos,       \* offset of the next character fgets reads (from 1)
    confLog,       \* the log lines the load loop has written
    kwatches,      \* kernel: watched paths, the watch descriptor is the index
    queue,         \* kernel: event records not yet read
    evCount,       \* kernel: event records generated so far
    signalCaught,  \* sig_atomic_t signalCaught
    nSignals,      \* signals delivered so far
    len,           \* result of the last read()
    buf,           \* records the last read() put in the buffer
    nReads,        \* successful reads so far
    reopens,       \* completed reopenLogs() calls of the event loop
    workers,       \* the forked workers, in fork order
    argv,          \* the command line, without argv[0]
    boot,          \* the start of main: the original process, what it
                   \* created, and the daemon child up to its read loop
    maskField,     \* field 2 of a configuration line and its conversion
    bitMap,        \* the mask handed to stringifyEventBits, as its set bits
    printed        \* what stringifyEventBits printed for it

vars == <<opt, dpc, dstatus, dlog, lineNo, trickHeap, maxNameLen,
          maxLineLen, confFile, confPos, confLog,
          kwatches, queue, evCount, signalCaught, nSignals, len, buf,
          nReads, reopens, workers, argv, boot, maskField, bitMap, printed>>

\* the variables of the start of main and of the functions taken alone
sideVars == <<argv, boot, maskField, bitMap, printed>>
confVars == <<maxLineLen, confFile, confPos, confLog, sideVars>>
loadVars == <<lineNo, trickHeap, maxNameLen, kwatches, confVars>>
loopVars == <<signalCaught, len, buf, nReads, reopens>>

trickCount == Len(trickHeap)

\* values of the side variables in the specifications that start after main
\* has parsed its options and become the daemon
NoBoot == [pc |-> "loop"]
NoField == [done |-> TRUE]
NoPrint == [done |-> TRUE]
SideIdle ==
    /\ argv = <<>>
    /\ boot = NoBoot
    /\ maskField = NoField
    /\ bitMap = {}
    /\ printed = NoPrint

(***************************************************************************)
(* The environment: file systems, the passwd database, the config file.    *)
(***************************************************************************)
PathA == <<"/", "a">>
PathB == <<"/", "b">>
PathC == <<"/", "c">>
PathLocked == <<"/", "k">>

\* paths inotify_add_watch refuses (errno set, -1 returned)
Unwatchable == {PathLocked}

\* accounts getpwnam_r finds
UserEtl == <<"e", "t", "l">>
UserGhost == <<"g", "h", "o", "s", "t">>
MailOps == <<"o", "p", "s">>
Passwd == {UserEtl}

NoPony == [watchHandle |-> 0, actions |-> 0, fileName |-> <<>>,
           script |-> <<>>, userid |-> <<>>, mail |-> <<>>]

ScriptS == <<"/", "s">>
ScriptLong == <<"/", "l", "l">>

\* A configuration line after tokenizing: the number of fields found, the
\* badPony flag, the pathconf answer for field 1 and the fields themselves.
ConfLines ==
    { [fieldNo |-> 0, badPony |-> 0, m |-> 0, pony |-> NoPony],
      [fieldNo |-> 4, badPony |-> 0, m |-> 31,
       pony |-> [NoPony EXCEPT !.fileName = PathB, !.actions = IN_CREATE,
                               !.script = ScriptS, !.userid = UserEtl]],
      [fieldNo |-> 5, badPony |-> 0, m |-> 15,
       pony |-> [watchHandle |-> 0, actions |-> IN_CREATE, fileName |-> PathA,
                 script |-> ScriptS, userid |-> UserEtl, mail |-> MailOps]],
      [fieldNo |-> 5, badPony |-> 0, m |-> 31,
       pony |-> [watchHandle |-> 0, actions |-> IN_CREATE, fileName |-> PathB,
                 script |-> ScriptS, userid |-> UserGhost, mail |-> MailOps]],
      [fieldNo |-> 5, badPony |-> 0, m |-> 15,
       pony |-> [watchHandle |-> 0, actions |-> IN_CREATE, fileName |-> PathC,
                 script |-> ScriptLong, userid |-> UserEtl, mail |-> MailOps]],
      [fieldNo |-> 5, badPony |-> 0, m |-> 15,
       pony |-> [watchHandle |-> 0, actions |-> IN_CREATE,
                 fileName |-> PathLocked, script |-> ScriptS,
                 userid |-> UserEtl, mail |-> MailOps]] }

EventNames == { <<>>, <<"x">> }
EventMasks == { IN_CREATE }

\* bug variant: logx ends the process with EXIT_SUCCESS
ExitStatusSuccess(xstatus) == 0

(***************************************************************************)
(* logx: a status of 0 returns to the caller, any other status ends the    *)
(* process with that status.                                               *)
(***************************************************************************)
ExitStatus(xstatus) == xstatus % 256

(***************************************************************************)
(* Kernel: inotify_add_watch.  A path already watched by the instance      *)
(* gives back its existing descriptor; a new one gets the next descriptor. *)
(***************************************************************************)
WatchOf(path) ==
    IF \E i \in 1..Len(kwatches) : kwatches[i] = path
    THEN CHOOSE i \in 1..Len(kwatches) : kwatches[i] = path
    ELSE 0

\* the bits of ALL_INOTIFY_BITS below bit 31 (the masks of the load model
\* stay below 2^31)
WatchBits == (0..11) \cup {13, 14, 15, 24, 25, 26, 28, 29, 30}
NoValidEvents(mask) == \A b \in WatchBits : (mask \div 2^b) % 2 = 0

\* bug variant: the kernel takes any mask
AddWatchAnyMask(path, mask) ==
    IF path \in Unwatchable THEN -1
    ELSE IF WatchOf(path) # 0 THEN WatchOf(path)
    ELSE Len(kwatches) + 1

\* a mask without any valid event is refused first (EINVAL)
inotify_add_watch(path, mask) ==
    IF NoValidEvents(mask) THEN -1
    ELSE IF path \in Unwatchable THEN -1
    ELSE IF WatchOf(path) # 0 THEN WatchOf(path)
    ELSE Len(kwatches) + 1

(***************************************************************************)
(* Kernel: read() on the inotify instance copies whole event records while *)
(* the next one fits in what is left of the caller's buffer.               *)
(***************************************************************************)
PadLen(name) ==
    IF name = <<>> THEN 0
    ELSE ((Len(name) + 1 + (EventHdr - 1)) \div EventHdr) * EventHdr

EventSize(e) == EventHdr + PadLen(e.name)

RECURSIVE Fit(_, _)
Fit(q, room) ==
    IF q = <<>> \/ EventSize(Head(q)) > room THEN 0
    ELSE 1 + Fit(Tail(q), room - EventSize(Head(q)))

RECURSIVE Bytes(_)
Bytes(q) == IF q = <<>> THEN 0 ELSE EventSize(Head(q)) + Bytes(Tail(q))

\* maxEventBufSize
BufSize == EventHdr + maxNameLen + 1

(***************************************************************************)
(* Init: the configuration file is open, the inotify instance exists, no   *)
(* line has been read yet.                                                 *)
(***************************************************************************)
Init ==
    /\ opt \in [log2file : BOOLEAN]
    /\ dpc = "load"
    /\ dstatus = -1
    /\ dlog = "daemon initialization"
    /\ lineNo = 0
    /\ trickHeap = <<>>
    /\ maxNameLen = 0
    /\ maxLineLen = LINE_MAX
    /\ confFile = <<>>
    /\ confPos = 1
    /\ confLog = <<>>
    /\ SideIdle
    /\ kwatches = <<>>
    /\ queue = <<>>
    /\ evCount = 0
    /\ signalCaught = 0
    /\ nSignals = 0
    /\ len = 0
    /\ buf = <<>>
    /\ nReads = 0
    /\ reopens = 0
    /\ workers = <<>>

\* logx with a non-zero status in the daemon
Die(xstatus, text) ==
    /\ dpc' = "exited"
    /\ dstatus' = ExitStatus(xstatus)
    /\ dlog' = text

(***************************************************************************)
(* The configuration file as text, and the C library calls the load loop   *)
(* makes on it.                                                            *)
(***************************************************************************)
Apostrophe == "'"

\* the characters of the model's alphabet for which isprint() is 0
Control == { "\n", "\t" }
isprint(c) == c \notin Control

Digits == <<"0", "1", "2", "3", "4", "5", "6", "7", "8", "9">>
isdigit(c) == \E d \in 1..Len(Digits) : Digits[d] = c
DigitValue(c) == (CHOOSE d \in 1..Len(Digits) : Digits[d] = c) - 1

\* atoi on a token of digits
RECURSIVE atoi(_)
atoi(token) ==
    IF token = <<>> THEN 0
    ELSE atoi(SubSeq(token, 1, Len(token) - 1)) * 10
         + DigitValue(token[Len(token)])

\* pathconf(path, _PC_NAME_MAX): the name limit of the file system hosting
\* an existing path, -1 for a path that does not exist (the empty one too)
pathconf(path) ==
    IF path = PathA \/ path = PathC \/ path = PathLocked THEN 15
    ELSE IF path = PathB THEN 31
    ELSE -1

\* fgets(confLine, size, configFile): at most size - 1 characters, up to and
\* with the first newline
fgets(text, pos, size) ==
    LET newlines == { i \in pos..Len(text) : text[i] = "\n" }
        eol == IF newlines = {} THEN Len(text)
               ELSE CHOOSE i \in newlines : \A j \in newlines : i <= j
        room == pos + size - 2
    IN  SubSeq(text, pos, IF eol < room THEN eol ELSE room)

maxUidLen == LOGIN_NAME_MAX

\* bug variant: a field as long as its limit is refused
FieldTooLongAtLimit(fieldLen, limit) == fieldLen >= limit

\* if (fieldLen > maxScriptLen), (fieldLen > maxUidLen), (fieldLen > maxEmailLen)
FieldTooLong(fieldLen, limit) == fieldLen > limit

\* the scan of a line starts with no field found and a sound pony
ScanStart ==
    [fieldNo |-> 0, tokenStart |-> 1, badPony |-> 0, m |-> 0,
     pony |-> NoPony, logs |-> <<>>]

Flag(st, value, msg) ==
    [st EXCEPT !.badPony = value, !.logs = Append(@, msg)]

\* switch (fieldNo): check the token's syntax while loading up the pony
TokenField(st, token) ==
    CASE st.fieldNo = 1 ->
            IF pathconf(token) <= 0
            THEN Flag([st EXCEPT !.m = pathconf(token)], 1,
                      "Can't determine max file name length")
            ELSE [st EXCEPT !.m = pathconf(token), !.pony.fileName = token]
      [] st.fieldNo = 2 ->
            IF \A i \in 1..Len(token) : isdigit(token[i])
            THEN [st EXCEPT !.pony.actions = atoi(token)]
            ELSE Flag(st, 2, "ERROR: non-numeric event mask")
      [] st.fieldNo = 3 ->
            IF FieldTooLong(Len(token), maxScriptLen)
            THEN Flag(st, 3, "ERROR: script name too long")
            ELSE [st EXCEPT !.pony.script = token]
      [] st.fieldNo = 4 ->
            IF FieldTooLong(Len(token), maxUidLen)
            THEN Flag(st, 4, "ERROR: script name too long")
            ELSE [st EXCEPT !.pony.userid = token]
      [] st.fieldNo = 5 ->
            IF FieldTooLong(Len(token), maxEmailLen)
            THEN Flag(st, 7, "Email address too long")
            ELSE [st EXCEPT !.pony.mail = token]
      [] OTHER ->
            [st EXCEPT !.logs = Append(@, "TOO MANY FIELDS - DISCARDING")]

\* the characters the loop flags: not printable and not a newline, or an
\* apostrophe
BadChar(c) == (~isprint(c) /\ c # "\n") \/ c = Apostrophe

\* the per-character checks over positions from..to, in order
FlagChars(st, confLine, from, to) ==
    LET bad == { i \in from..to : BadChar(confLine[i]) }
        at(k) == CHOOSE i \in bad : Cardinality({ j \in bad : j <= i }) = k
        msgs == [k \in 1..Cardinality(bad) |->
                    IF isprint(confLine[at(k)]) THEN "illegal character"
                    ELSE "invisible character"]
    IN  IF bad = {} THEN st
        ELSE [st EXCEPT !.badPony = 1, !.logs = @ \o msgs]

\* where the for loop stops: the first '#', or the end of the string
RecordEnd(confLine) ==
    LET hashes == { i \in 1..Len(confLine) : confLine[i] = "#" }
    IN  IF hashes = {} THEN Len(confLine) + 1
        ELSE CHOOSE i \in hashes : \A j \in hashes : i <= j

\* for (recordLen = 0; confLine[recordLen] != '\0' && != '#'; recordLen++),
\* taken a field at a time: the characters up to the next ':' or newline are
\* checked, then the token before that delimiter is extracted
RECURSIVE Scan(_, _, _)
Scan(st, confLine, end) ==
    LET delims == { i \in st.tokenStart..(end - 1) :
                       confLine[i] = ":" \/ confLine[i] = "\n" }
        d == CHOOSE i \in delims : \A j \in delims : i <= j
        checked == FlagChars(st, confLine, st.tokenStart, d)
    IN  IF delims = {}
        THEN FlagChars(st, confLine, st.tokenStart, end - 1)
        ELSE Scan([TokenField([checked EXCEPT !.fieldNo = @ + 1],
                              SubSeq(confLine, st.tokenStart, d - 1))
                      EXCEPT !.tokenStart = d + 1],
                  confLine, end)

\* a line as the for loop leaves it: fields found, badPony, the pathconf
\* answer for field 1, the pony, the log lines written on the way
ParseLine(confLine) ==
    LET st == Scan(ScanStart, confLine, RecordEnd(confLine))
    IN  [fieldNo |-> st.fieldNo, badPony |-> st.badPony, m |-> st.m,
         pony |-> st.pony, logs |-> st.logs]

(***************************************************************************)
(* Configuration files: every file of up to MaxLines of these pieces.      *)
(***************************************************************************)
Rep(c, n) == [i \in 1..n |-> c]

EntryText(path, mask, script, user, mail) ==
    path \o <<":">> \o mask \o <<":">> \o script \o <<":">> \o user
         \o <<":">> \o mail

Entry(path, actions, script, user, mail) ==
    [watchHandle |-> 0, actions |-> actions, fileName |-> path,
     script |-> script, userid |-> user, mail |-> mail]

MaskText == <<"2", "5", "6">>
TextA == EntryText(PathA, MaskText, ScriptS, UserEtl, MailOps)
EntryA == Entry(PathA, IN_CREATE, ScriptS, UserEtl, MailOps)

Piece(text, kind, pony) == [text |-> text, kind |-> kind, pony |-> pony]

Pieces ==
    [ A |-> Piece(TextA \o <<"\n">>, "valid", EntryA),
      B |-> Piece(EntryText(PathB, MaskText, ScriptS, UserGhost, MailOps)
                     \o <<"\n">>, "valid",
                  Entry(PathB, IN_CREATE, ScriptS, UserGhost, MailOps)),
      blank |-> Piece(<<"\n">>, "blank", NoPony),
      comment |-> Piece(<<"#", "i", "t", "'", "s", "\n">>, "comment", NoPony),
      longComment |->
          Piece(<<"#">> \o Rep("c", LINE_MAX - 2)
                  \o EntryText(PathC, MaskText, ScriptS, UserEtl, MailOps)
                  \o <<"\n">>, "comment", NoPony),
      commented |-> Piece(TextA \o <<"#", "c", "\n">>, "commented", EntryA),
      unended |-> Piece(TextA, "unended", EntryA),
      four |-> Piece(PathA \o <<":">> \o MaskText \o <<":">> \o ScriptS
                       \o <<":">> \o UserEtl \o <<"\n">>, "malformed", NoPony),
      six |-> Piece(EntryText(PathB, MaskText, ScriptS, UserEtl, MailOps)
                      \o <<":", "x", "\n">>, "six", NoPony),
      apos |-> Piece(EntryText(PathA, MaskText, <<"/", "'">>, UserEtl, MailOps)
                       \o <<"\n">>, "malformed", NoPony),
      tab |-> Piece(EntryText(PathA, MaskText, <<"/", "\t">>, UserEtl, MailOps)
                      \o <<"\n">>, "malformed", NoPony),
      alpha |-> Piece(EntryText(PathA, <<"2", "x">>, ScriptS, UserEtl, MailOps)
                        \o <<"\n">>, "malformed", NoPony),
      zero |-> Piece(EntryText(PathA, <<"0">>, ScriptS, UserEtl, MailOps)
                       \o <<"\n">>, "zeroMask", NoPony),
      noMask |-> Piece(EntryText(PathA, <<>>, ScriptS, UserEtl, MailOps)
                         \o <<"\n">>, "zeroMask", NoPony),
      nofield |-> Piece(PathA \o <<"#", "c", "\n">>, "malformed", NoPony),
      nopath |-> Piece(EntryText(<<"/", "n">>, MaskText, ScriptS, UserEtl,
                                 MailOps) \o <<"\n">>, "malformed", NoPony),
      locked |-> Piece(EntryText(PathLocked, MaskText, ScriptS, UserEtl,
                                 MailOps) \o <<"\n">>, "unwatchable", NoPony),
      script256 |->
          Piece(EntryText(PathA, MaskText, Rep("s", maxScriptLen), UserEtl,
                          MailOps) \o <<"\n">>, "atLimit",
                Entry(PathA, IN_CREATE, Rep("s", maxScriptLen), UserEtl,
                      MailOps)),
      script257 |->
          Piece(EntryText(PathA, MaskText, Rep("s", maxScriptLen + 1),
                          UserEtl, MailOps) \o <<"\n">>, "overLimit", NoPony),
      uidMax |->
          Piece(EntryText(PathB, MaskText, ScriptS, Rep("u", maxUidLen),
                          MailOps) \o <<"\n">>, "atLimit",
                Entry(PathB, IN_CREATE, ScriptS, Rep("u", maxUidLen),
                      MailOps)),
      uidOver |->
          Piece(EntryText(PathB, MaskText, ScriptS, Rep("u", maxUidLen + 1),
                          MailOps) \o <<"\n">>, "overLimit", NoPony),
      mail36 |->
          Piece(EntryText(PathC, MaskText, ScriptS, UserEtl,
                          Rep("m", maxEmailLen)) \o <<"\n">>, "atLimit",
                Entry(PathC, IN_CREATE, ScriptS, UserEtl,
                      Rep("m", maxEmailLen))),
      mail37 |->
          Piece(EntryText(PathC, MaskText, ScriptS, UserEtl,
                          Rep("m", maxEmailLen + 1)) \o <<"\n">>, "overLimit",
                NoPony) ]

PieceIds == DOMAIN Pieces

ConfFiles == UNION { [1..n -> PieceIds] : n \in 0..MaxLines }

\* the characters of a file
RECURSIVE ConfText(_)
ConfText(file) ==
    IF file = <<>> THEN <<>>
    ELSE Pieces[Head(file)].text \o ConfText(Tail(file))

(***************************************************************************)
(* Configuration parse / inotify setup loop, one line per step.            *)
(***************************************************************************)
\* bug variants of the test: left out; catching gaps but not repeats
NonSequentialUnchecked(watchHandle, count) == FALSE

NonSequentialGapsOnly(watchHandle, count) == watchHandle > count + 1

\* the test that guards the table's indexing by watch descriptor
NonSequential(watchHandle, count) == watchHandle # (count + 1)

\* the pony as the line's fields and the kernel's answer load it
LoadedPony(line, wd) == [line.pony EXCEPT !.watchHandle = wd]

PrependPony(heap, pony) == <<pony>> \o heap

\* the table grows by one slot at its end and the pony is copied into it
AppendPony(heap, pony) == Append(heap, pony)

\* what the loop does with a tokenized line: skip, discard, or register the
\* watch and append the trick
Register(line) ==
    /\ lineNo' = lineNo + 1
    /\ maxNameLen' = IF line.fieldNo >= 1 /\ line.m > maxNameLen
                     THEN line.m ELSE maxNameLen
    /\ IF line.fieldNo = 0
       THEN UNCHANGED <<trickHeap, kwatches, dpc, dstatus, dlog>>
       ELSE IF line.badPony # 0 \/ line.fieldNo < 5
       THEN /\ dlog' = "ERROR: discarding line"
            /\ UNCHANGED <<trickHeap, kwatches, dpc, dstatus>>
       ELSE LET wd == inotify_add_watch(line.pony.fileName, line.pony.actions)
            IN  /\ kwatches' = IF wd = Len(kwatches) + 1
                               THEN Append(kwatches, line.pony.fileName)
                               ELSE kwatches
                /\ IF wd < 0
                   THEN /\ dlog' = "ERROR: discarding line"
                        /\ UNCHANGED <<trickHeap, dpc, dstatus>>
                   ELSE IF NonSequential(wd, trickCount)
                   THEN /\ Die(2, "Heap corrupt, non-sequential watch descriptor")
                        /\ UNCHANGED trickHeap
                   ELSE /\ trickHeap' = AppendPony(trickHeap, LoadedPony(line, wd))
                        /\ UNCHANGED <<dpc, dstatus, dlog>>
    /\ UNCHANGED <<opt, queue, evCount, workers>>
    /\ UNCHANGED loopVars
    /\ UNCHANGED nSignals

\* one pass of the load loop over an already tokenized line
LoadLine(line) ==
    /\ dpc = "load"
    /\ lineNo < MaxLines
    /\ Register(line)
    /\ UNCHANGED confVars

\* the log lines Register's branch writes for the line
RegisterLog(line) ==
    IF line.fieldNo = 0 THEN <<>>
    ELSE IF line.badPony # 0 \/ line.fieldNo < 5
    THEN <<"ERROR: discarding line">>
    ELSE IF inotify_add_watch(line.pony.fileName, line.pony.actions) < 0
    THEN <<"ERROR: Unable to add watch", "ERROR: discarding line">>
    ELSE IF NonSequential(inotify_add_watch(line.pony.fileName,
                                            line.pony.actions), trickCount)
    THEN <<"Heap corrupt, non-sequential watch descriptor">>
    ELSE <<>>

\* a log line of the load loop with the line number it carries
Stamp(msgs, n) == [i \in 1..Len(msgs) |-> [line |-> n, msg |-> msgs[i]]]

\* while (fgets(confLine, maxLineLen, configFile) != NULL) { ... }: one pass
\* of the load loop over the next line of the file
ReadConfLine ==
    /\ dpc = "load"
    /\ confPos <= Len(ConfText(confFile))
    /\ LET confLine == fgets(ConfText(confFile), confPos, maxLineLen)
           line == ParseLine(confLine)
       IN  /\ Register(line)
           /\ confPos' = confPos + Len(confLine)
           /\ confLog' = confLog \o Stamp(line.logs \o RegisterLog(line),
                                          lineNo + 1)
    /\ UNCHANGED <<maxLineLen, confFile, sideVars>>

\* end of file: the signal traps are installed and the read loop starts
LoadDone ==
    /\ dpc = "load"
    /\ confPos > Len(ConfText(confFile))
    /\ dpc' = "top"
    /\ UNCHANGED <<opt, dstatus, dlog, queue, evCount, nSignals, workers>>
    /\ UNCHANGED loadVars
    /\ UNCHANGED loopVars

(***************************************************************************)
(* Kernel: a watched object changes, an event record is queued.            *)
(***************************************************************************)
KernelEvent(wd, mask, name) ==
    /\ dpc \in {"top", "read", "eintr", "got"}
    /\ evCount < MaxEvents
    /\ wd \in 1..Len(kwatches)
    /\ evCount' = evCount + 1
    /\ queue' = Append(queue, [seq |-> evCount + 1, wd |-> wd,
                               mask |-> mask, name |-> name])
    /\ UNCHANGED <<opt, dpc, dstatus, dlog, nSignals, workers>>
    /\ UNCHANGED loadVars
    /\ UNCHANGED loopVars

(***************************************************************************)
(* signalTrap: records the signal; a read blocked with nothing to return   *)
(* comes back with EINTR.                                                  *)
(***************************************************************************)
TrappedSignals == {SIGHUP, SIGINT, SIGTERM}

signalTrap(sig) ==
    /\ dpc \in {"top", "read", "eintr", "got"}
    /\ nSignals < MaxSignals
    /\ nSignals' = nSignals + 1
    /\ signalCaught' = sig
    /\ dpc' = IF dpc = "read" /\ queue = <<>> THEN "eintr" ELSE dpc
    /\ UNCHANGED <<opt, dstatus, dlog, queue, evCount, len, buf, nReads,
                   reopens, workers>>
    /\ UNCHANGED loadVars

(***************************************************************************)
(* The inotify read/wait loop.                                             *)
(***************************************************************************)
\* while (pid > 0) { errno = 0; len = read(...)  -- the read blocks
EnterRead ==
    /\ dpc = "top"
    /\ dpc' = "read"
    /\ UNCHANGED <<opt, dstatus, dlog, queue, evCount, nSignals, workers>>
    /\ UNCHANGED loadVars
    /\ UNCHANGED loopVars

\* the read returns the records that fit the buffer
ReadEvent ==
    /\ dpc = "read"
    /\ queue # <<>>
    /\ LET k == Fit(queue, BufSize)
       IN  /\ buf' = SubSeq(queue, 1, k)
           /\ queue' = SubSeq(queue, k + 1, Len(queue))
           /\ len' = IF k = 0 THEN -1 ELSE Bytes(SubSeq(queue, 1, k))
           /\ nReads' = IF k = 0 THEN nReads ELSE nReads + 1
    /\ dpc' = "got"
    /\ UNCHANGED <<opt, dstatus, dlog, evCount, signalCaught, nSignals,
                   reopens, workers>>
    /\ UNCHANGED loadVars

\* the read fails without a signal: zero bytes or a negative length
ReadFails(l) ==
    /\ dpc = "read"
    /\ l <= 0
    /\ len' = l
    /\ dpc' = "got"
    /\ UNCHANGED <<opt, dstatus, dlog, queue, evCount, signalCaught, nSignals,
                   buf, nReads, reopens, workers>>
    /\ UNCHANGED loadVars

\* bug variant: the SIGHUP case without its break, falling into the shutdown
OnSignalFallsThrough(sig, log2file, freopenOk) == "shutdown"

\* switch (signalCaught): what the loop does about an interrupted read.
\* reopenLogs ends the process through logx(1) when a freopen fails.
OnSignal(sig, log2file, freopenOk) ==
    IF sig = SIGHUP
    THEN IF log2file
         THEN IF freopenOk THEN "reopen" ELSE "logfail"
         ELSE "ignored"
    ELSE "shutdown"

\* if (errno == EINTR) { ... switch (signalCaught) ... }
Eintr(freopenOk) ==
    /\ dpc = "eintr"
    /\ LET act == OnSignal(signalCaught, opt.log2file, freopenOk)
       IN  CASE act = "reopen" ->
                  /\ reopens' = reopens + 1
                  /\ dlog' = "Caught signal, reopening stdout/stderr"
                  /\ dpc' = "top"
                  /\ UNCHANGED dstatus
             [] act = "ignored" ->
                  /\ dlog' = "Caught signal, ignored."
                  /\ dpc' = "top"
                  /\ UNCHANGED <<dstatus, reopens>>
             [] act = "logfail" ->
                  /\ Die(1, "Error opening logfile")
                  /\ UNCHANGED reopens
             [] act = "shutdown" ->
                  /\ Die(EXIT_SUCCESS,
                         "gidget event wait terminated by signal, shutting down.")
                  /\ UNCHANGED reopens
    /\ UNCHANGED <<opt, queue, evCount, signalCaught, nSignals, len, buf,
                   nReads, workers>>
    /\ UNCHANGED loadVars

\* the credentials and working directory every process forked from the
\* daemon starts with: the daemon's own
DaemonCred ==
    [uid |-> <<"r", "o", "o", "t">>, gid |-> <<"r", "o", "o", "t">>,
     groups |-> {<<"r", "o", "o", "t">>, <<"d", "i", "s", "k">>},
     cwd |-> <<"/">>]

NoEvent == [seq |-> 0, wd |-> 0, mask |-> 0, name |-> <<>>]

\* a worker as fork() leaves it: a copy of the daemon's memory and of its
\* signal dispositions (SIGCHLD is SA_NOCLDWAIT in the daemon)
NewWorker ==
    [buf |-> buf, pc |-> "start", status |-> -1, log |-> "",
     chld |-> "nocldwait", event |-> NoEvent, pony |-> NoPony,
     fileOrFolder |-> <<>>, glog |-> "",
     command |-> <<>>, gpc |-> "none", cstatus |-> [exited |-> FALSE, code |-> 0],
     pipe |-> <<>>, wrote |-> 0, mailslot |-> "none", mailed |-> <<>>,
     bytesMailed |-> 0, alarms |-> {}, written |-> <<>>,
     gdone |-> <<>>, gcred |-> DaemonCred, pending |-> "",
     mailLog |-> -1]

\* bug variant: the parent waits for its earlier workers before it goes on
ForkWorkerAndWait(forkOk) ==
    /\ dpc = "got"
    /\ len > 0
    /\ \A i \in 1..Len(workers) : workers[i].pc = "exited"
    /\ IF forkOk
       THEN /\ workers' = Append(workers, NewWorker)
            /\ dpc' = "top"
            /\ UNCHANGED <<dstatus, dlog>>
       ELSE /\ Die(8, "failed to fork script executor child process!")
            /\ UNCHANGED workers
    /\ UNCHANGED <<opt, queue, evCount, nSignals>>
    /\ UNCHANGED loadVars
    /\ UNCHANGED loopVars

\* if (len > 0) pid = fork(); the parent loops, a fork error ends the daemon
ForkWorker(forkOk) ==
    /\ dpc = "got"
    /\ len > 0
    /\ IF forkOk
       THEN /\ workers' = Append(workers, NewWorker)
            /\ dpc' = "top"
            /\ UNCHANGED <<dstatus, dlog>>
       ELSE /\ Die(8, "failed to fork script executor child process!")
            /\ UNCHANGED workers
    /\ UNCHANGED <<opt, queue, evCount, nSignals>>
    /\ UNCHANGED loadVars
    /\ UNCHANGED loopVars

\* bug variant: a failed read is logged and the loop reads again
DaemonRetries ==
    /\ dpc = "got"
    /\ len <= 0
    /\ dpc' = "top"
    /\ dlog' = "inotify returned FAIL"
    /\ UNCHANGED <<opt, dstatus, queue, evCount, nSignals, workers>>
    /\ UNCHANGED loadVars
    /\ UNCHANGED loopVars

\* else: zero length or inotify failure, logx(7)
DaemonDead ==
    /\ dpc = "got"
    /\ len <= 0
    /\ Die(7, IF len = 0
              THEN "zero length string returned from inotify, daemon dead"
              ELSE "inotify returned FAIL, daemon dead")
    /\ UNCHANGED <<opt, queue, evCount, nSignals, workers>>
    /\ UNCHANGED loadVars
    /\ UNCHANGED loopVars

(***************************************************************************)
(* The worker: the child of the event loop's fork.                         *)
(***************************************************************************)
\* rule 3: an apostrophe in the object name becomes %27
RECURSIVE Munge(_)
Munge(name) ==
    IF name = <<>> THEN <<>>
    ELSE (IF Head(name) = Apostrophe THEN <<"%", "2", "7">> ELSE <<Head(name)>>)
         \o Munge(Tail(name))

\* fileOrFolder as the copy loops leave it: the trick's path, a slash, the
\* munged name
AssemblePath(fileName, name) == fileName \o <<"/">> \o Munge(name)

\* the munge copy ends the string with a null; the plain copy writes none
Terminated(name) == name # <<>> /\ name[Len(name)] = Apostrophe

\* what the str* functions read from fileOrFolder: the assembled bytes and,
\* when no null was written, whatever the stack holds up to the first null
Visible(fileName, name, junk) ==
    AssemblePath(fileName, name) \o (IF Terminated(name) THEN <<>> ELSE junk)

\* bytes the uninitialized buffer may hold after the assembled path
Junk == { <<>>, <<"?">> }

\* the overflow test runs after each character of the name
NameOverflow(fileName, name) ==
    \E k \in 1..Len(name) :
        Len(fileName) + 1 + Len(Munge(SubSeq(name, 1, k))) > maxNameLen

\* the bytes of fileOrFolder the name loop stores into, counted from the
\* start of the buffer: a plain character is one byte at terminus, the munge
\* copy is %27 and its null; the overflow test follows each store
RECURSIVE NameExtent(_, _, _)
NameExtent(name, terminus, extent) ==
    IF name = <<>> THEN extent
    ELSE LET munged == Head(name) = Apostrophe
             after == terminus + (IF munged THEN 3 ELSE 1)
             stored == terminus + (IF munged THEN 4 ELSE 1)
             reach == IF stored > extent THEN stored ELSE extent
         IN  IF after > maxNameLen THEN reach
             ELSE NameExtent(Tail(name), after, reach)

\* the copy of pony.fileName stores its null, the slash replaces it
Extent(fileName, name) ==
    NameExtent(name, Len(fileName) + 1, Len(fileName) + 1)

\* char fileOrFolder[maxNameLen]: a store beyond the array is undefined; the
\* worker is killed by it or goes on with its neighbours on the stack changed
Overrun(fileName, name) == Extent(fileName, name) > maxNameLen

HexDigits == <<"0", "1", "2", "3", "4", "5", "6", "7", "8", "9",
               "a", "b", "c", "d", "e", "f">>

RECURSIVE Hex(_, _)
Hex(n, width) ==
    IF width = 0 THEN <<>>
    ELSE Hex(n \div 16, width - 1) \o <<HexDigits[(n % 16) + 1]>>

\* sprintf(eventMask, "%#.8x", event->mask)
EventMaskText(mask) ==
    IF mask = 0 THEN Hex(mask, 8) ELSE <<"0", "x">> \o Hex(mask, 8)

\* the test before the command is built
CommandTooLong(script, maskText, path) ==
    Len(script) + Len(maskText) + Len(path) + 4 > maxLineLen

\* script 'fileOrFolder' eventMask
Command(script, path, maskText) ==
    script \o <<" ">> \o <<Apostrophe>> \o path \o <<Apostrophe>> \o <<" ">>
           \o maskText

\* bug variant: the worker keeps the disposition it inherited
KeptChld == "nocldwait"

\* sigaction(SIGCHLD, &oldChldAct, NULL): oldChldAct is the zeroed struct
ReleasedChld == "default"

\* logx with a non-zero status in a worker
WorkerDies(w, xstatus, text) ==
    [w EXCEPT !.pc = "exited", !.status = ExitStatus(xstatus), !.log = text]

\* bug variant: the record decoded is the last one of the buffer
DecodeLastEvent(b) == b[Len(b)]

\* event = (struct inotify_event *) &buf[0]
DecodeEvent(b) == b[1]

\* event->mask & bit, for a single-bit constant
HasBit(mask, bit) == (mask \div bit) % 2 = 1

\* the GRIEVOUS ERROR and WARNING lines the three flag tests log
Alarms(mask) ==
    { a \in {"unmount", "overflow", "ignored"} :
        \/ a = "unmount" /\ HasBit(mask, IN_UNMOUNT)
        \/ a = "overflow" /\ HasBit(mask, IN_Q_OVERFLOW)
        \/ a = "ignored" /\ HasBit(mask, IN_IGNORED) }

\* pony = *trickHeap[(event->wd) - 1] with a descriptor outside 1..trickCount
\* reads memory outside the table as a pointer and follows it: the worker
\* is killed by SIGSEGV, or gets a pony of garbage, or a stray loaded trick
WildLookups == {"segv", "garbage", "trick"}

GarbagePony ==
    [watchHandle |-> 0, actions |-> 0, fileName |-> <<"?">>,
     script |-> <<"?">>, userid |-> <<"?">>, mail |-> <<"?">>]

Faults(wd, wild) ==
    /\ wd \notin 1..trickCount
    /\ wild = "segv" \/ (wild = "trick" /\ trickCount = 0)

Lookup(wd, wild) ==
    IF wd \in 1..trickCount THEN trickHeap[wd]
    ELSE IF wild = "trick" THEN trickHeap[1]
    ELSE GarbagePony

\* from the fork's return in the child to the fork of the grandchild
SetupWorker(w, junk, sys, wild) ==
    LET event == DecodeEvent(w.buf)
        trick == Lookup(event.wd, wild)
        path == Visible(trick.fileName, event.name, junk)
        maskText == EventMaskText(event.mask)
        w1 == [w EXCEPT !.chld = ReleasedChld, !.event = event,
                        !.pony = trick,
                        !.fileOrFolder = path]
        w2 == [w1 EXCEPT !.alarms = Alarms(event.mask)]
    IN  IF Faults(event.wd, wild)
        THEN [w EXCEPT !.chld = ReleasedChld, !.event = event,
                       !.pc = "killed"]
        ELSE IF Overrun(trick.fileName, event.name) /\ wild = "segv"
        THEN [w1 EXCEPT !.pc = "killed"]
        ELSE IF NameOverflow(trick.fileName, event.name)
        THEN WorkerDies(w1, 13, "filesystem object name overflow!")
        ELSE IF trick.userid \notin Passwd
        THEN WorkerDies(w2, 19, "getpwnam_r failed to find user")
        ELSE IF CommandTooLong(trick.script, maskText, path)
        THEN WorkerDies(w2, 22, "command too long for shell")
        ELSE IF sys = "nopipe"
        THEN WorkerDies([w2 EXCEPT !.command =
                             Command(trick.script, path, maskText)],
                        24, "unable to create mail pipe")
        ELSE IF sys = "nofork"
        THEN WorkerDies([w2 EXCEPT !.command =
                             Command(trick.script, path, maskText)],
                        25, "unable to fork script executor")
        ELSE [w2 EXCEPT !.command = Command(trick.script, path, maskText),
                        !.log = "Executing command", !.gpc = "start",
                        !.pc = "getc"]

WorkerSetup(i, junk, sys, wild) ==
    /\ i \in 1..Len(workers)
    /\ workers[i].pc = "start"
    /\ workers' = [workers EXCEPT ![i] = SetupWorker(@, junk, sys, wild)]
    /\ UNCHANGED <<opt, dpc, dstatus, dlog, queue, evCount, nSignals>>
    /\ UNCHANGED loadVars
    /\ UNCHANGED loopVars

\* the statuses the grandchild's own logx calls end it with
GrandchildFailures == { "chdir", "setgid", "setuid", "execl" }

FailureStatus(fail) ==
    CASE fail = "chdir" -> 26
      [] fail = "setgid" -> 27
      [] fail = "setuid" -> 28
      [] fail = "execl" -> 29

\* the calls of the grandchild in the order of the code
GrandchildCalls == <<"chdir", "setgid", "setuid", "execl">>

\* the calls that returned success when fail is the one that did not
CallsBefore(fail) ==
    SubSeq(GrandchildCalls, 1,
           (CHOOSE k \in 1..4 : GrandchildCalls[k] = fail) - 1)

\* pwd as getpwnam_r fills it for the trick's user, with the groups the
\* group database lists for that user
Account(userid) ==
    [uid |-> userid, gid |-> userid,
     groups |-> {userid, <<"s", "t", "a", "f", "f">>},
     dir |-> <<"/", "h">> \o userid]

\* chdir(pwd->pw_dir), setgid(pwd->pw_gid), setuid(pwd->pw_uid): what the
\* successful calls change; nothing touches the supplementary groups
CredAfter(cred, pwd, calls) ==
    [uid |-> IF \E k \in DOMAIN calls : calls[k] = "setuid"
             THEN pwd.uid ELSE cred.uid,
     gid |-> IF \E k \in DOMAIN calls : calls[k] = "setgid"
             THEN pwd.gid ELSE cred.gid,
     groups |-> cred.groups,
     cwd |-> IF \E k \in DOMAIN calls : calls[k] = "chdir"
             THEN pwd.dir ELSE cred.cwd]

\* bug variant: a failed call is logged and the grandchild goes on to exec
RunGrandchildRegardless(w, fail) ==
    LET calls == IF fail = "execl" THEN CallsBefore(fail)
                 ELSE SelectSeq(GrandchildCalls, LAMBDA c : c # fail)
    IN  IF fail = "execl"
        THEN [w EXCEPT !.gpc = "done", !.glog = fail,
                       !.pipe = Append(@, "L"),
                       !.written = Append(@, "L"),
                       !.wrote = @ + 1,
                       !.gdone = calls,
                       !.gcred = CredAfter(@, Account(w.pony.userid), calls),
                       !.cstatus = [exited |-> TRUE,
                                    code |-> ExitStatus(FailureStatus(fail))]]
        ELSE [w EXCEPT !.gpc = "running", !.gdone = calls,
                       !.gcred = CredAfter(@, Account(w.pony.userid), calls)]

\* the grandchild: pipe to stdout and stderr, chdir, setgid, setuid, execl.
\* A failing step logs to stderr, which is the pipe by then.
RunGrandchild(w, fail) ==
    LET calls == IF fail \in GrandchildFailures THEN CallsBefore(fail)
                 ELSE GrandchildCalls
        cred == CredAfter(w.gcred, Account(w.pony.userid), calls)
    IN  IF fail \in GrandchildFailures
        THEN [w EXCEPT !.gpc = "done",
                       !.glog = fail,
                       !.pipe = Append(@, "L"),
                       !.written = Append(@, "L"),
                       !.wrote = @ + 1,
                       !.gdone = calls,
                       !.gcred = cred,
                       !.cstatus = [exited |-> TRUE,
                                    code |-> ExitStatus(FailureStatus(fail))]]
        ELSE [w EXCEPT !.gpc = "running", !.gdone = calls, !.gcred = cred]

Grandchild(i, fail) ==
    /\ i \in 1..Len(workers)
    /\ workers[i].gpc = "start"
    /\ workers' = [workers EXCEPT ![i] = RunGrandchild(@, fail)]
    /\ UNCHANGED <<opt, dpc, dstatus, dlog, queue, evCount, nSignals>>
    /\ UNCHANGED loadVars
    /\ UNCHANGED loopVars

\* the bytes a pipe holds before a write to it blocks (65536 in the kernel),
\* scaled down to the outputs of the model
PipeCapacity == 1

\* the user script writes a byte to its stdout or stderr; with the pipe full
\* the write blocks until the reader has made room
ScriptWrite(i, byte) ==
    /\ i \in 1..Len(workers)
    /\ workers[i].gpc = "running"
    /\ workers[i].wrote < MaxOut
    /\ workers' =
          IF Len(workers[i].pipe) < PipeCapacity
          THEN [workers EXCEPT ![i].pipe = Append(@, byte),
                               ![i].written = Append(@, byte),
                               ![i].wrote = @ + 1]
          ELSE [workers EXCEPT ![i].gpc = "blocked", ![i].pending = byte]
    /\ UNCHANGED <<opt, dpc, dstatus, dlog, queue, evCount, nSignals>>
    /\ UNCHANGED loadVars
    /\ UNCHANGED loopVars

\* the blocked write completes once the pipe has room
ScriptUnblock(i) ==
    /\ i \in 1..Len(workers)
    /\ workers[i].gpc = "blocked"
    /\ Len(workers[i].pipe) < PipeCapacity
    /\ workers' = [workers EXCEPT ![i].pipe = Append(@, workers[i].pending),
                                  ![i].written = Append(@, workers[i].pending),
                                  ![i].wrote = @ + 1,
                                  ![i].pending = "",
                                  ![i].gpc = "running"]
    /\ UNCHANGED <<opt, dpc, dstatus, dlog, queue, evCount, nSignals>>
    /\ UNCHANGED loadVars
    /\ UNCHANGED loopVars

\* wait statuses of a script: exit codes 0, 3 and 127, or death by a signal
ScriptStatuses ==
    { [exited |-> TRUE, code |-> 0], [exited |-> TRUE, code |-> 3],
      [exited |-> TRUE, code |-> 127], [exited |-> FALSE, code |-> 9] }

\* the user script ends; the write end of the pipe closes with it
ScriptExit(i, st) ==
    /\ i \in 1..Len(workers)
    /\ workers[i].gpc = "running"
    /\ workers' = [workers EXCEPT ![i].gpc = "done", ![i].cstatus = st]
    /\ UNCHANGED <<opt, dpc, dstatus, dlog, queue, evCount, nSignals>>
    /\ UNCHANGED loadVars
    /\ UNCHANGED loopVars

\* getc on the pipe returns once a byte is there or every writer has closed
Readable(w) == w.pipe # <<>> \/ w.gpc = "done"

\* bug variant: the mail transport is opened before the first byte is tested
FirstGetcAlwaysMails(w, popenOk) ==
    [w EXCEPT !.pipe = IF w.pipe = <<>> THEN <<>> ELSE Tail(w.pipe),
              !.mailslot = IF popenOk THEN "open" ELSE "failed",
              !.mailed = w.pipe,
              !.pc = IF popenOk THEN "drain" ELSE "wait"]

\* bug variant: the byte consumed by the emptiness test is not mailed
FirstGetcDropsByte(w, popenOk) ==
    IF w.pipe = <<>>
    THEN [w EXCEPT !.pc = "wait"]
    ELSE IF popenOk
    THEN [w EXCEPT !.pipe = Tail(@), !.mailslot = "open",
                   !.mailed = <<>>, !.pc = "drain"]
    ELSE [w EXCEPT !.pipe = Tail(@), !.mailslot = "failed", !.pc = "wait"]

\* int ch = getc(fromPipe); if (ch != EOF) mailslot = popen(MAILCOMMAND, "w")
FirstGetc(w, popenOk) ==
    IF w.pipe = <<>>
    THEN [w EXCEPT !.pc = "wait"]
    ELSE IF popenOk
    THEN [w EXCEPT !.pipe = Tail(@), !.mailslot = "open",
                   !.mailed = <<Head(w.pipe)>>, !.pc = "drain"]
    ELSE [w EXCEPT !.pipe = Tail(@), !.mailslot = "failed", !.pc = "wait"]

WorkerGetc(i, popenOk) ==
    /\ i \in 1..Len(workers)
    /\ workers[i].pc = "getc"
    /\ Readable(workers[i])
    /\ workers' = [workers EXCEPT ![i] = FirstGetc(@, popenOk)]
    /\ UNCHANGED <<opt, dpc, dstatus, dlog, queue, evCount, nSignals>>
    /\ UNCHANGED loadVars
    /\ UNCHANGED loopVars

\* if (bytesMailed != 0) logx(0, "... mailed %d bytes of output ..."): the
\* count the worker logs, -1 when it logs none
MailedLog(bytesMailed) == IF bytesMailed # 0 THEN bytesMailed ELSE -1

\* while ((ch = getc(fromPipe)) != EOF) { bytesMailed++; putc(ch, mailslot); }
\* then pclose and the log of the count
DrainStep(w) ==
    IF w.pipe # <<>>
    THEN [w EXCEPT !.pipe = Tail(@), !.mailed = Append(@, Head(w.pipe)),
                   !.bytesMailed = @ + 1]
    ELSE [w EXCEPT !.mailslot = "closed", !.pc = "wait",
                   !.mailLog = MailedLog(w.bytesMailed)]

WorkerDrain(i) ==
    /\ i \in 1..Len(workers)
    /\ workers[i].pc = "drain"
    /\ Readable(workers[i])
    /\ workers' = [workers EXCEPT ![i] = DrainStep(@)]
    /\ UNCHANGED <<opt, dpc, dstatus, dlog, queue, evCount, nSignals>>
    /\ UNCHANGED loadVars
    /\ UNCHANGED loopVars

\* bug variant: the status bits are used without the WIFEXITED test
ShStatusUnchecked(cstatus) == cstatus.code

\* int shstatus = EXIT_FAILURE; if WIFEXITED, shstatus = WEXITSTATUS(cstatus)
ShStatus(cstatus) == IF ~cstatus.exited THEN EXIT_FAILURE ELSE cstatus.code

\* waitpid on a child the kernel auto-reaped fails with ECHILD
WaitFails(w) == w.chld = "nocldwait"

\* waitpid, the status switch, logx(shstatus, ...) and exit(shstatus)
ReapGrandchild(w) ==
    IF WaitFails(w)
    THEN WorkerDies(w, 29, "execl mail FAILED")
    ELSE [w EXCEPT !.pc = "exited",
                   !.status = ExitStatus(ShStatus(w.cstatus)),
                   !.log = IF ~w.cstatus.exited
                           THEN "FATAL ERROR: unable to determine exit status"
                           ELSE IF w.cstatus.code = 127
                           THEN "scripts should never return status 127"
                           ELSE IF w.cstatus.code = 0
                           THEN "script executor grandchild process successful completion"
                           ELSE "script fail"]

WorkerWait(i) ==
    /\ i \in 1..Len(workers)
    /\ workers[i].pc = "wait"
    /\ workers[i].gpc = "done"
    /\ workers' = [workers EXCEPT ![i] = ReapGrandchild(@)]
    /\ UNCHANGED <<opt, dpc, dstatus, dlog, queue, evCount, nSignals>>
    /\ UNCHANGED loadVars
    /\ UNCHANGED loopVars

(***************************************************************************)
(* The daemon process: load, traps, read/wait loop.                        *)
(***************************************************************************)
DaemonNext ==
    \/ \E line \in ConfLines : LoadLine(line)
    \/ LoadDone
    \/ EnterRead
    \/ ReadEvent
    \/ \E ok \in BOOLEAN : Eintr(ok)
    \/ \E ok \in BOOLEAN : ForkWorker(ok)
    \/ DaemonDead

Next ==
    \/ DaemonNext
    \/ \E wd \in 1..MaxLines, mask \in EventMasks, name \in EventNames :
          KernelEvent(wd, mask, name)
    \/ \E sig \in TrappedSignals : signalTrap(sig)
    \/ \E l \in {0, -1} : ReadFails(l)

Spec == Init /\ [][Next]_vars

(***************************************************************************)
(* The load loop over configuration files given as text.                   *)
(***************************************************************************)
InitLoad ==
    /\ opt = [log2file |-> FALSE]
    /\ dpc = "load"
    /\ dstatus = -1
    /\ dlog = "daemon initialization"
    /\ lineNo = 0
    /\ trickHeap = <<>>
    /\ maxNameLen = 0
    /\ maxLineLen = LINE_MAX
    /\ confFile \in ConfFiles
    /\ confPos = 1
    /\ confLog = <<>>
    /\ SideIdle
    /\ kwatches = <<>>
    /\ queue = <<>>
    /\ evCount = 0
    /\ signalCaught = 0
    /\ nSignals = 0
    /\ len = 0
    /\ buf = <<>>
    /\ nReads = 0
    /\ reopens = 0
    /\ workers = <<>>

NextLoad == ReadConfLine \/ LoadDone

SpecLoad == InitLoad /\ [][NextLoad]_vars

(***************************************************************************)
(* The event loop with its workers, from the state a two-line              *)
(* configuration leaves the daemon in at the top of the loop.              *)
(***************************************************************************)
Loaded(lines) ==
    [i \in 1..Len(lines) |-> LoadedPony(lines[i], i)]

ValidLine(path) ==
    CHOOSE line \in ConfLines : line.fieldNo = 5 /\ line.pony.fileName = path

Configs == { <<ValidLine(PathA), ValidLine(PathB)>>,
             <<ValidLine(PathC), ValidLine(PathA)>> }

InitWorkers ==
    /\ opt = [log2file |-> FALSE]
    /\ dpc = "top"
    /\ dstatus = -1
    /\ dlog = "daemon initialization"
    /\ \E lines \in Configs :
          /\ lineNo = Len(lines)
          /\ trickHeap = Loaded(lines)
          /\ maxNameLen = 31
          /\ maxLineLen = ShortLineMax
          /\ confFile = <<>>
          /\ confPos = 1
          /\ confLog = <<>>
          /\ SideIdle
          /\ kwatches = [i \in 1..Len(lines) |-> lines[i].pony.fileName]
    /\ queue = <<>>
    /\ evCount = 0
    /\ signalCaught = 0
    /\ nSignals = 0
    /\ len = 0
    /\ buf = <<>>
    /\ nReads = 0
    /\ reopens = 0
    /\ workers = <<>>

\* the steps of worker i and its grandchild other than the worker's setup
WorkerSteps(i) ==
       \/ \E fail \in GrandchildFailures \cup {"none"} : Grandchild(i, fail)
       \/ ScriptWrite(i, "o")
       \/ ScriptUnblock(i)
       \/ \E st \in ScriptStatuses : ScriptExit(i, st)
       \/ \E ok \in BOOLEAN : WorkerGetc(i, ok)
       \/ WorkerDrain(i)
       \/ WorkerWait(i)

SysFailures == {"ok", "nopipe", "nofork"}

WorkerNext ==
    \E i \in 1..MaxEvents :
       \/ \E junk \in Junk, sys \in SysFailures, wild \in WildLookups :
             WorkerSetup(i, junk, sys, wild)
       \/ WorkerSteps(i)

LoopNext ==
    \/ EnterRead
    \/ ReadEvent
    \/ \E ok \in BOOLEAN : ForkWorker(ok)
    \/ \E wd \in 1..MaxLines, mask \in EventMasks, name \in EventNames :
          KernelEvent(wd, mask, name)

NextWorkers == LoopNext \/ WorkerNext

SpecWorkers == InitWorkers /\ [][NextWorkers]_vars

(***************************************************************************)
(* The event loop and its workers from the state in which the kernel has   *)
(* queued one event of any kind: a file created under any name, a watch    *)
(* dropped, a file system unmounted, the kernel's queue overflowed.        *)
(***************************************************************************)
ObjectNames ==
    { <<>>, <<"x">>, <<Apostrophe>>, <<"x", Apostrophe>>,
      <<Apostrophe, "x">>, <<Apostrophe, Apostrophe>>, <<"%", "2", "7">> }

\* the records the kernel can queue first: wd is -1 in an overflow record
FirstEvents ==
    { [seq |-> 1, wd |-> wd, mask |-> IN_CREATE, name |-> name] :
          wd \in 1..MaxLines, name \in ObjectNames }
    \cup { [seq |-> 1, wd |-> wd, mask |-> mask, name |-> <<>>] :
          wd \in 1..MaxLines, mask \in {IN_UNMOUNT, IN_IGNORED} }
    \cup { [seq |-> 1, wd |-> -1, mask |-> IN_Q_OVERFLOW, name |-> <<>>] }

\* bytes the uninitialized buffer may hold after the assembled path
StackJunk == Junk \cup { <<Apostrophe>> }

InitEvent ==
    /\ opt = [log2file |-> FALSE]
    /\ dpc = "top"
    /\ dstatus = -1
    /\ dlog = "daemon initialization"
    /\ \E lines \in Configs :
          /\ lineNo = Len(lines)
          /\ trickHeap = Loaded(lines)
          /\ maxNameLen = 31
          /\ kwatches = [i \in 1..Len(lines) |-> lines[i].pony.fileName]
    /\ maxLineLen = LINE_MAX
    /\ confFile = <<>>
    /\ confPos = 1
    /\ confLog = <<>>
    /\ SideIdle
    /\ queue \in { <<e>> : e \in FirstEvents }
    /\ evCount = 1
    /\ signalCaught = 0
    /\ nSignals = 0
    /\ len = 0
    /\ buf = <<>>
    /\ nReads = 0
    /\ reopens = 0
    /\ workers = <<>>

WorkerNextEvent ==
    \E i \in 1..MaxEvents :
       \/ \E junk \in StackJunk, sys \in SysFailures, wild \in WildLookups :
             WorkerSetup(i, junk, sys, wild)
       \/ WorkerSteps(i)
       \/ ScriptWrite(i, "e")

NextEvent ==
    \/ EnterRead
    \/ ReadEvent
    \/ \E ok \in BOOLEAN : ForkWorker(ok)
    \/ WorkerNextEvent

SpecEvent == InitEvent /\ [][NextEvent]_vars

(***************************************************************************)
(* Properties of the daemon process (specification Spec).                  *)
(***************************************************************************)
HeapCorruptText == "Heap corrupt, non-sequential watch descriptor"

\* C3: once the configuration load is over, in every state of the event
\* loop, the i-th trick of the table (table[i-1] in the source) holds watch
\* descriptor i, and no step changes the table any more.
C3_WatchIdIndexing ==
    /\ [](dpc # "load" =>
            \A i \in 1..trickCount : trickHeap[i].watchHandle = i)
    /\ [][dpc # "load" => trickHeap' = trickHeap]_vars

C3_Witness ==
    /\ dpc = "got"
    /\ trickCount = 2
    /\ nReads = 1
    /\ signalCaught = SIGHUP

\* C4: a line whose registration returns a descriptor >= 0 other than
\* trickCount + 1 (the kernel returns the existing descriptor of a path
\* already watched) ends the daemon with a non-zero status and the
\* heap-corrupt line, appends nothing, and the daemon never reads an event.
C4_NonSequentialIsFatal ==
    /\ [][\A line \in ConfLines :
            ( /\ LoadLine(line)
              /\ line.fieldNo = 5
              /\ line.badPony = 0
              /\ inotify_add_watch(line.pony.fileName, line.pony.actions) >= 0
              /\ inotify_add_watch(line.pony.fileName, line.pony.actions)
                    # trickCount + 1 )
            => ( /\ dpc' = "exited"
                 /\ dstatus' # 0
                 /\ dlog' = HeapCorruptText
                 /\ trickHeap' = trickHeap )]_vars
    /\ [](dlog = HeapCorruptText =>
            dpc = "exited" /\ nReads = 0 /\ workers = <<>>)
    /\ [][dpc = "exited" => dpc' = "exited"]_vars

C4_Witness ==
    /\ dpc = "exited"
    /\ dlog = HeapCorruptText
    /\ dstatus = 2
    /\ trickCount = 1
    /\ trickHeap[1].fileName = PathA

\* C5 (as claimed): once the flag holds a terminate or interrupt signal the
\* daemon has exited with status 0 or can take its next step by itself,
\* without a further event or signal.
C5_TerminateNeedsNoEvent ==
    signalCaught \in {SIGTERM, SIGINT} =>
        \/ dpc = "exited" /\ dstatus = EXIT_SUCCESS
        \/ dpc # "exited" /\ ENABLED DaemonNext

C7_FlagClearedOnConsumption ==
    [][(dpc = "eintr" /\ dpc' = "top") => signalCaught' = 0]_vars

(***************************************************************************)
(* Properties of the event loop with its workers (SpecWorkers).            *)
(***************************************************************************)
ForkFailedText == "failed to fork script executor child process!"

\* a read whose fork has not happened yet, or whose fork failed
ReadWithoutWorker ==
    IF (dpc = "got" /\ len > 0) \/ (dpc = "exited" /\ dlog = ForkFailedText)
    THEN 1 ELSE 0

RECURSIVE Records(_)
Records(ws) == IF ws = <<>> THEN <<>> ELSE Head(ws).buf \o Records(Tail(ws))

\* every record the kernel generated, in the order it left the kernel:
\* the buffers of the workers in fork order, the buffer of a read without
\* worker, the records still queued
Delivered ==
    Records(workers) \o (IF ReadWithoutWorker = 1 THEN buf ELSE <<>>) \o queue

\* workers are forked in the order of delivery, each decodes the first record
\* of its read, and no other record of a read is any worker's event
FirstRecordInOrder ==
    /\ Len(Delivered) = evCount
    /\ \A n \in 1..evCount : Delivered[n].seq = n
    /\ \A i \in 1..Len(workers) :
          /\ workers[i].buf # <<>>
          /\ workers[i].pc # "start" => workers[i].event = workers[i].buf[1]
    /\ \A i \in 1..Len(workers), j \in 1..Len(workers) :
          /\ i < j => workers[i].buf[1].seq < workers[j].buf[1].seq
          /\ \A k \in 2..Len(workers[i].buf) :
                workers[j].event # workers[i].buf[k]

\* C1 (as claimed): every successful read whose fork is over has forked
\* exactly one worker; workers are forked in delivery order; only the first
\* record of a read is decoded and dispatched.
C1_ExactlyOneWorkerPerRead ==
    /\ (dpc # "got" => Len(workers) = nReads)
    /\ FirstRecordInOrder

\* C1 (amended): every successful read is followed by exactly one fork, which
\* forks exactly one worker or, when it fails, none, the daemon then exiting
\* with status 8; workers are forked in delivery order; only the first record
\* of a read is decoded and dispatched, the other records of that read never
\* get a worker.
C1_OneForkPerRead ==
    /\ Len(workers) + ReadWithoutWorker = nReads
    /\ (dpc = "exited" => dstatus = 8 /\ dlog = ForkFailedText)
    /\ FirstRecordInOrder

C1_Witness ==
    /\ Len(workers) = 1
    /\ Len(workers[1].buf) = 2
    /\ workers[1].event = workers[1].buf[1]
    /\ workers[1].pc = "exited"
    /\ queue = <<>>
    /\ dpc = "read"

\* C2: whatever the workers do, the daemon's next step is enabled: at the top
\* of the loop it enters the read, with a record queued the read returns, a
\* read that returned records forks; and a fork that made a worker leaves the
\* parent at the top of the loop.
C2_DaemonNeverWaits ==
    /\ [](dpc = "top" => ENABLED EnterRead)
    /\ [](dpc = "read" /\ queue # <<>> => ENABLED ReadEvent)
    /\ [](dpc = "got" /\ len > 0 => ENABLED ForkWorker(TRUE))
    /\ [][Len(workers') > Len(workers) => dpc' = "top"]_vars

C2_Witness ==
    /\ Len(workers) = 2
    /\ workers[1].gpc = "running"
    /\ workers[2].gpc = "running"
    /\ dpc = "read"

WorkerFailTexts == { "getpwnam_r failed to find user",
                     "command too long for shell",
                     "unable to fork script executor" }

LoopStep == EnterRead \/ ReadEvent \/ ForkWorker(TRUE)

\* C8 (as claimed, for the fork of a worker): a fork failure leaves the
\* daemon running.
C8_ForkFailureSparesDaemon ==
    ~(dpc = "exited" /\ dlog = ForkFailedText)

\* C8 (amended): a name-service lookup failure, an over-long command and a
\* failure of the worker's fork of the grandchild end the worker with a
\* non-zero status, an exec failure ends the grandchild with a non-zero
\* status; no step of a worker or grandchild changes the daemon, which goes
\* on with its loop.  The daemon stops only when its own fork of a worker
\* fails, with status 8.
C8_WorkerErrorsStayInWorker ==
    /\ [](\A i \in 1..Len(workers) :
            /\ workers[i].log \in WorkerFailTexts
                  => workers[i].pc = "exited" /\ workers[i].status > 0
            /\ workers[i].glog = "execl"
                  => /\ workers[i].gpc = "done"
                     /\ workers[i].cstatus.exited
                     /\ workers[i].cstatus.code > 0)
    /\ [][(workers' # workers /\ Len(workers') = Len(workers))
            => UNCHANGED <<dpc, dstatus, dlog, trickHeap, kwatches, queue,
                           len, buf, signalCaught>>]_vars
    /\ [](dpc = "exited" => dstatus = 8 /\ dlog = ForkFailedText)
    /\ [](dpc # "exited" =>
            (dpc = "read" /\ queue = <<>>) \/ ENABLED LoopStep)

C8_Witness ==
    /\ Len(workers) = 2
    /\ workers[1].log = "getpwnam_r failed to find user"
    /\ workers[1].status = 19
    /\ workers[2].glog = "execl"
    /\ workers[2].pc = "exited"
    /\ workers[2].status = 29
    /\ dpc = "read"

\* a worker past its first getc on the pipe
PastFirstGetc(w) == w.gpc # "none" /\ w.pc \in {"drain", "wait", "exited"}

C10_WorkerExitStatus ==
    \A i \in 1..Len(workers) :
        (workers[i].pc = "exited" /\ workers[i].gpc # "none") =>
            workers[i].status = IF workers[i].cstatus.exited
                                THEN workers[i].cstatus.code
                                ELSE EXIT_FAILURE

C10_Witness ==
    /\ Len(workers) = 2
    /\ workers[1].pc = "exited"
    /\ workers[1].cstatus = [exited |-> TRUE, code |-> 127]
    /\ workers[1].status = 127
    /\ workers[2].pc = "exited"
    /\ ~workers[2].cstatus.exited
    /\ workers[2].status = EXIT_FAILURE

(***************************************************************************)
(* Properties of the worker's path and command for one queued event        *)
(* (specification SpecEvent).                                              *)
(***************************************************************************)
Occurrences(str, pat) ==
    Cardinality({ i \in 1..(Len(str) - Len(pat) + 1) :
                     SubSeq(str, i, i + Len(pat) - 1) = pat })

\* a worker that found its trick in the table and assembled the path
Assembled(w) == w.pc \notin {"start", "killed"} /\ w.event.wd \in 1..trickCount

\* C11 (as claimed): for an event name with k apostrophes the path the worker
\* assembled, as the string the command and the mail are built from, holds
\* exactly k occurrences of %27 and no apostrophe.
C11_ApostrophesMunged ==
    \A i \in 1..Len(workers) :
        Assembled(workers[i]) =>
            /\ Occurrences(workers[i].fileOrFolder, <<"%", "2", "7">>)
                  = Occurrences(workers[i].event.name, <<Apostrophe>>)
            /\ Occurrences(workers[i].fileOrFolder, <<Apostrophe>>) = 0

\* C12 (as claimed): the command handed to the shell is the script, a
\* space, an apostrophe, the trick's path, a slash, the munged event name, an
\* apostrophe, a space, and the mask as 0x and eight hexadecimal digits.
C12_CommandText ==
    \A i \in 1..Len(workers) :
        (Assembled(workers[i]) /\ workers[i].command # <<>>) =>
            workers[i].command =
                workers[i].pony.script \o <<" ", Apostrophe>>
                  \o workers[i].pony.fileName \o <<"/">>
                  \o Munge(workers[i].event.name)
                  \o <<Apostrophe, " ", "0", "x">>
                  \o Hex(workers[i].event.mask, 8)

\* C13 (as claimed): the worker of an event with the queue-overflow bit logs
\* the "GRIEVOUS ERROR: inotify event queue overflow" line and no mail
\* transport is opened for that event.
C13_OverflowLoggedNoMail ==
    \A i \in 1..Len(workers) :
        ( /\ workers[i].pc \in {"exited", "killed"}
          /\ HasBit(workers[i].event.mask, IN_Q_OVERFLOW) ) =>
            /\ "overflow" \in workers[i].alarms
            /\ workers[i].mailslot = "none"

\* C14 (as claimed): the worker of an event carrying the unmount, overflow
\* or ignored bit logs the condition and goes on: it is not ended by the
\* flag, and when it has run the script it exits with the script's status.
C14_FlaggedEventsNonFatal ==
    \A i \in 1..Len(workers) :
        ( /\ workers[i].pc # "start"
          /\ Alarms(workers[i].event.mask) # {} ) =>
            /\ workers[i].pc # "killed"
            /\ workers[i].alarms = Alarms(workers[i].event.mask)
            /\ (workers[i].pc = "exited" /\ workers[i].gpc # "none")
                  => workers[i].status = ShStatus(workers[i].cstatus)

(***************************************************************************)
(* Properties of the load loop over configuration text (SpecLoad).         *)
(***************************************************************************)
\* the line the next pass of the load loop reads
CurrentLine == fgets(ConfText(confFile), confPos, maxLineLen)

\* a step that is one pass of the load loop
LinePass == dpc = "load" /\ confPos' > confPos

\* the log lines a step adds
NewLog == { confLog'[k] : k \in (Len(confLog) + 1)..Len(confLog') }

Discarding(n) == [line |-> n, msg |-> "ERROR: discarding line"]

\* a line without a comment, ended by its newline
PlainLine(text) ==
    /\ Len(text) > 1
    /\ text[Len(text)] = "\n"
    /\ \A i \in 1..Len(text) : text[i] # "#"

ColonFields(text) == Cardinality({ i \in 1..Len(text) : text[i] = ":" }) + 1

\* the tricks a file's pieces of the given kinds stand for, in file order
Expected(file, kinds) ==
    LET ids == SelectSeq(file, LAMBDA id : Pieces[id].kind \in kinds)
    IN  [i \in 1..Len(ids) |-> [Pieces[ids[i]].pony EXCEPT !.watchHandle = i]]

KindsOf(file) == { Pieces[file[i]].kind : i \in 1..Len(file) }

\* every piece of the file is one line for fgets
OneLinePieces(file) ==
    \A i \in 1..Len(file) :
        LET text == Pieces[file[i]].text
        IN  /\ Len(text) < maxLineLen
            /\ \A k \in 1..Len(text) : (text[k] = "\n") <=> (k = Len(text))

\* C15 (as claimed): a line with fewer or more than five colon-separated
\* fields is reported and discarded: it registers no watch and adds nothing
\* to the table.
C15_OnlyFiveFieldsLoad ==
    [][(LinePass /\ PlainLine(CurrentLine) /\ ColonFields(CurrentLine) # 5)
         => /\ trickHeap' = trickHeap
            /\ kwatches' = kwatches
            /\ NewLog # {}]_vars

C17_SkipsSilently ==
    [][(LinePass /\ (CurrentLine = <<"\n">> \/ CurrentLine[1] = "#"))
         => /\ confLog' = confLog
            /\ ParseLine(CurrentLine).fieldNo = 0
            /\ kwatches' = kwatches
            /\ trickHeap' = trickHeap]_vars

\* C18 (as claimed): five valid fields followed by a '#' comment, or ending
\* the file without a newline, load the trick the plain line loads.
C18_CommentToEndOfLine ==
    ( /\ dpc = "top"
      /\ KindsOf(confFile) \subseteq {"valid", "commented", "unended"}
      /\ \A i \in 1..Len(confFile) :
            /\ Pieces[confFile[i]].kind = "unended" => i = Len(confFile)
            /\ \A j \in 1..Len(confFile) :
                  Pieces[confFile[i]].pony.fileName
                     = Pieces[confFile[j]].pony.fileName => i = j )
        => trickHeap = Expected(confFile, {"valid", "commented", "unended"})

\* C19 (as claimed): the pass over a line that fails a field rule, holds an
\* invisible character or an apostrophe, lacks fields, or whose watch cannot
\* be registered logs "discarding" with the line number, registers no watch,
\* leaves the table unchanged and the loop goes on.
C19_MalformedReportedAndSkipped ==
    [][(LinePass /\ OneLinePieces(confFile)
          /\ Pieces[confFile[lineNo + 1]].kind
                \in {"malformed", "overLimit", "unwatchable"})
         => /\ Discarding(lineNo + 1) \in NewLog
            /\ trickHeap' = trickHeap
            /\ kwatches' = kwatches
            /\ dpc' = "load"]_vars

\* C20: a line whose script field has 256 characters, whose account field
\* has as many as the login-name limit, or whose mail-to field has 36, is
\* loaded as a trick; with one character more in that field (257, limit + 1,
\* 37) the whole line is discarded: reported, no watch, table unchanged.
C20_FieldLengthBoundaries ==
    [][(LinePass /\ OneLinePieces(confFile))
         => LET p == Pieces[confFile[lineNo + 1]]
            IN  /\ ( /\ p.kind = "atLimit"
                     /\ \A k \in 1..Len(kwatches) :
                           kwatches[k] # p.pony.fileName )
                      => trickHeap' =
                           Append(trickHeap, [p.pony EXCEPT
                                     !.watchHandle = trickCount + 1])
                /\ p.kind = "overLimit"
                      => /\ trickHeap' = trickHeap
                         /\ kwatches' = kwatches
                         /\ Discarding(lineNo + 1) \in NewLog]_vars

C20_Witness ==
    /\ dpc = "top"
    /\ confFile = <<"script256", "mail37">>
    /\ trickCount = 1
    /\ Len(trickHeap[1].script) = maxScriptLen
    /\ confLog = <<[line |-> 2, msg |-> "Email address too long"],
                   Discarding(2)>>

(***************************************************************************)
(* The variables of the daemon, for the specifications of a function taken *)
(* alone, and their values while main has not reached the load loop.       *)
(***************************************************************************)
daemonVars == <<dpc, dstatus, dlog, lineNo, trickHeap, maxNameLen,
                maxLineLen, confFile, confPos, confLog, kwatches, queue,
                evCount, signalCaught, nSignals, len, buf, nReads, reopens,
                workers>>
mainVars == <<opt, daemonVars>>

DaemonIdle ==
    /\ dpc = "load"
    /\ dstatus = -1
    /\ dlog = ""
    /\ lineNo = 0
    /\ trickHeap = <<>>
    /\ maxNameLen = 0
    /\ maxLineLen = LINE_MAX
    /\ confFile = <<>>
    /\ confPos = 1
    /\ confLog = <<>>
    /\ kwatches = <<>>
    /\ queue = <<>>
    /\ evCount = 0
    /\ signalCaught = 0
    /\ nSignals = 0
    /\ len = 0
    /\ buf = <<>>
    /\ nReads = 0
    /\ reopens = 0
    /\ workers = <<>>

MainIdle == opt = [log2file |-> FALSE] /\ DaemonIdle

(***************************************************************************)
(* Field 2 of a configuration line: for (i...) isdigit; pony.actions =     *)
(* atoi(confToken).  The values reach 2^32 - 1, so a number is kept as two *)
(* 16-bit halves: hi * 65536 + lo.                                         *)
(***************************************************************************)
MaxMaskLen == 2    \* length of the mask fields generated from MaskChars

Half == 65536
Num(hi, lo) == [hi |-> hi, lo |-> lo]

\* the decimal value of a token of digits
RECURSIVE Decimal(_)
Decimal(token) ==
    IF token = <<>> THEN Num(0, 0)
    ELSE LET p == Decimal(SubSeq(token, 1, Len(token) - 1))
             low == p.lo * 10 + DigitValue(token[Len(token)])
         IN  Num(p.hi * 10 + low \div Half, low % Half)

\* the width of long: atoi is (int) strtol(nptr, NULL, 10), and the C
\* library leaves atoi undefined for a value that does not fit an int
LongBits == {32, 64}

\* strtol: the value, or LONG_MAX when the value does not fit a long (the
\* tokens of the model stay below 2^63)
strtol(token, longBits) ==
    LET v == Decimal(token)
    IN  IF longBits = 32 /\ v.hi >= Half \div 2
        THEN Num(Half \div 2 - 1, Half - 1)
        ELSE v

\* pony.actions = atoi(confToken): the long cut to an int, stored in a
\* uint32_t
AtoiMask(token, longBits) ==
    LET v == strtol(token, longBits) IN Num(v.hi % Half, v.lo)

AllDigits(token) == \A i \in 1..Len(token) : isdigit(token[i])

MaskChars == {"0", "1", "2", "9", "x"}
MaskTokens ==
    UNION { [1..n -> MaskChars] : n \in 0..MaxMaskLen }
    \cup { <<"2", "5", "6">>,
           <<"2", "1", "4", "7", "4", "8", "3", "6", "4", "7">>,
           <<"2", "1", "4", "7", "4", "8", "3", "6", "4", "8">>,
           <<"4", "2", "9", "4", "9", "6", "7", "2", "9", "5">>,
           <<"4", "2", "9", "4", "9", "6", "7", "2", "9", "6">> }

\* case 2 of the field switch
ConvertMask ==
    /\ ~maskField.done
    /\ maskField' =
          IF AllDigits(maskField.confToken)
          THEN [maskField EXCEPT
                  !.done = TRUE,
                  !.actions = AtoiMask(maskField.confToken,
                                       maskField.longBits)]
          ELSE [maskField EXCEPT !.done = TRUE, !.badPony = 2]
    /\ UNCHANGED mainVars
    /\ UNCHANGED <<argv, boot, bitMap, printed>>

InitMask ==
    /\ MainIdle
    /\ argv = <<>>
    /\ boot = NoBoot
    /\ bitMap = {}
    /\ printed = NoPrint
    /\ \E token \in MaskTokens, longBits \in LongBits :
          maskField = [done |-> FALSE, confToken |-> token,
                       longBits |-> longBits, badPony |-> 0,
                       actions |-> Num(0, 0)]

NextMask == ConvertMask

SpecMask == InitMask /\ [][NextMask]_vars

\* C21 (as claimed): a mask field of digits whose value is at most 2^32 - 1
\* is stored as that value, 2^31 and above included; a mask field with a
\* character that is not a digit flags the line for discarding.
C21_MaskStoredExactly ==
    (maskField.done /\ maskField # NoField) =>
        IF AllDigits(maskField.confToken)
        THEN Decimal(maskField.confToken).hi < Half
                => /\ maskField.actions = Decimal(maskField.confToken)
                   /\ maskField.badPony = 0
        ELSE maskField.badPony # 0

C23_MailBodyIsOutput ==
    \A i \in 1..Len(workers) :
        /\ workers[i].mailslot = "closed"
              => workers[i].mailed = workers[i].written
        /\ workers[i].mailslot = "open"
              => workers[i].mailed \o workers[i].pipe = workers[i].written

C23_Witness ==
    /\ Len(workers) = 1
    /\ workers[1].pc = "exited"
    /\ workers[1].mailslot = "closed"
    /\ workers[1].written = <<"o", "e">>
    /\ workers[1].mailed = <<"o", "e">>
    /\ workers[1].bytesMailed = 1

(***************************************************************************)
(* gig_opts: the command line.  An element of argv is an option token, or  *)
(* a word; a word has the length strlen gives it.                          *)
(***************************************************************************)
MaxArgs == 3       \* elements of argv after argv[0]

MAX_CONFIG_NAME_LEN == 256
MAX_LOG_NAME_LEN == 256
MAX_PID_NAME_LEN == 128

OptionTokens == {"-d", "-V", "-v", "-c", "-l", "-p", "-s", "-x", "-?"}
\* the options of the string ":dVvc:l:p:s:", and those with a colon
KnownOptions == {"-d", "-V", "-v", "-c", "-l", "-p", "-s"}
WithArgument == {"-c", "-l", "-p", "-s"}
Words == {"f", "p129", "p257", "7", "8"}
ArgTokens == OptionTokens \cup Words
CommandLines == UNION { [1..n -> ArgTokens] : n \in 0..MaxArgs }

strlen(token) ==
    CASE token = "p129" -> MAX_PID_NAME_LEN + 1
      [] token = "p257" -> MAX_CONFIG_NAME_LEN + 1
      [] token \in OptionTokens -> 2
      [] OTHER -> 1

\* getopt(argc, argv, ":dVvc:l:p:s:") called until it returns -1: what it
\* returns for the elements from argv[i] on, and the operands it leaves at
\* optind.  A leading colon makes it return ':' for a missing argument and
\* '?' for an option that is not in the string.
RECURSIVE getopt(_, _)
getopt(args, i) ==
    IF i > Len(args) THEN [returns |-> <<>>, operands |-> <<>>]
    ELSE LET a == args[i]
             Then(r, rest) == [rest EXCEPT !.returns = <<r>> \o @]
         IN  IF a \notin OptionTokens
             THEN LET rest == getopt(args, i + 1)
                  IN  [rest EXCEPT !.operands = <<a>> \o @]
             ELSE IF a \notin KnownOptions
             THEN Then([o |-> "?", optopt |-> a, optarg |-> ""],
                       getopt(args, i + 1))
             ELSE IF a \in WithArgument /\ i = Len(args)
             THEN Then([o |-> ":", optopt |-> a, optarg |-> ""],
                       getopt(args, i + 1))
             ELSE IF a \in WithArgument
             THEN Then([o |-> a, optopt |-> a, optarg |-> args[i + 1]],
                       getopt(args, i + 2))
             ELSE Then([o |-> a, optopt |-> a, optarg |-> ""],
                       getopt(args, i + 1))

\* opts_t opt = {0,0,0,0,0} and the three default names
DefaultOpt ==
    [daemon |-> 0, verbose |-> 0, log2file |-> 0, syslog |-> 0, sloglev |-> 0,
     config |-> "/etc/gidget.conf", logfile |-> "/var/log/gidget",
     pidfile |-> "/var/run/gidget.pid"]

\* a line a process writes: by logx, by fprintf or by usage
Line(proc, via, stream, text, xstatus) ==
    [proc |-> proc, via |-> via, stream |-> stream, text |-> text,
     xstatus |-> xstatus, syslog |-> -1]

\* fprintf to a stream, then exit(status) when status is not -1
Say(st, via, stream, text, status) ==
    [st EXCEPT !.out = Append(@, Line("main", via, stream, text, -1)),
               !.status = status]

\* usage(fh): the help text on fh, exit(1)
usage(st, fh) == Say(st, "usage", fh, "Usage: gidget [OPTION]", 1)

\* case ':'
MissingArgument(st, r) ==
    IF r.optopt = "-s" THEN [st EXCEPT !.opt.sloglev = 3]
    ELSE Say(st, "fprintf", "stderr", "Option requires an argument.", -1)

NameTooLong(optarg, max) == strlen(optarg) > max

\* case 's'
SyslogLevel(st, optarg) ==
    LET lev == IF strlen(optarg) = 1 /\ isdigit(optarg)
               THEN atoi(<<optarg>>) ELSE -1
        st2 == [st EXCEPT !.opt.sloglev = lev]
    IN  IF lev > 7 \/ lev < 0 THEN usage(st2, "stderr")
        ELSE [st2 EXCEPT !.opt.syslog = 1]

\* the body of the switch (o)
OptionCase(st, r) ==
    CASE r.o = ":" -> MissingArgument(st, r)
      [] r.o = "-d" -> [st EXCEPT !.opt.daemon = 1, !.opt.log2file = 1]
      [] r.o = "-V" -> Say(st, "fprintf", "stdout", "Gidget v1.01", 0)
      [] r.o = "-v" -> [st EXCEPT !.opt.verbose = 1]
      [] r.o = "-c" ->
            IF NameTooLong(r.optarg, MAX_CONFIG_NAME_LEN)
            THEN Say(st, "fprintf", "stderr",
                     "configuration file name too long!", 1)
            ELSE [st EXCEPT !.opt.config = r.optarg]
      [] r.o = "-l" ->
            IF NameTooLong(r.optarg, MAX_LOG_NAME_LEN)
            THEN Say(st, "fprintf", "stderr", "log file name too long!", 1)
            ELSE [st EXCEPT !.opt.logfile = r.optarg, !.opt.log2file = 1]
      [] r.o = "-p" ->
            IF NameTooLong(r.optarg, MAX_PID_NAME_LEN)
            THEN Say(st, "fprintf", "stderr", "Pid file name too long!", 1)
            ELSE [st EXCEPT !.opt.pidfile = r.optarg]
      [] r.o = "-s" -> SyslogLevel(st, r.optarg)
      [] r.o = "?" -> usage(st, "stdout")
      [] OTHER -> usage(st, "stderr")

\* while ((o = getopt(...)) != -1) switch (o): an exit ends the loop
RECURSIVE OptionLoop(_, _)
OptionLoop(st, returns) ==
    IF returns = <<>> \/ st.status # -1 THEN st
    ELSE OptionLoop(OptionCase(st, Head(returns)), Tail(returns))

\* if (optind < argc): the first operand is the configuration file; a
\* second one is a usage error
Operands(st, operands) ==
    IF st.status # -1 \/ operands = <<>> THEN st
    ELSE IF NameTooLong(operands[1], MAX_CONFIG_NAME_LEN)
    THEN Say(st, "fprintf", "stderr", "configuration file name too long!", 1)
    ELSE LET st2 == [st EXCEPT !.opt.config = operands[1]]
         IN  IF Len(operands) > 1 THEN usage(st2, "stderr") ELSE st2

\* gig_opts(argc, argv): the options, or the exit status and what was
\* printed before the exit
gig_opts(args) ==
    LET g == getopt(args, 1)
    IN  Operands(OptionLoop([opt |-> DefaultOpt, out |-> <<>>, status |-> -1],
                            g.returns), g.operands)

(***************************************************************************)
(* The start of main: options, configuration file, log streams, the fork   *)
(* of the daemon and the pid file, up to the first read of the loop.       *)
(* boot.pc is the position of the process that runs main forward: the      *)
(* original process, and after the fork of daemon mode the child;          *)
(* boot.parent is the original process once it has forked.                 *)
(***************************************************************************)
BootStart ==
    [pc |-> "opts", status |-> -1, exitAt |-> "", parent |-> "none",
     pstatus |-> -1, out |-> <<>>, syslogOpen |-> FALSE, config |-> "closed",
     logFile |-> FALSE, pidFile |-> <<>>, pidFileFailed |-> FALSE,
     instance |-> FALSE, pending |-> FALSE, caught |-> 0]

\* bug variant: logx returns to its caller whatever the status
LogxReturns(b, proc, xstatus, text) ==
    [b EXCEPT !.out = Append(@, [Line(proc, "logx",
                                      IF xstatus = 0 THEN "stdout"
                                      ELSE "stderr", text, xstatus)
                                   EXCEPT !.syslog = IF opt.syslog = 1
                                                     THEN opt.sloglev
                                                     ELSE -1])]

\* logx(xstatus, opt, text) in a process of the start: the line goes to
\* stdout for status 0 and to stderr otherwise, and to syslog at
\* opt.sloglev when opt.syslog is 1; a non-zero status ends the process
logx(b, proc, xstatus, text) ==
    LET line == [Line(proc, "logx",
                      IF xstatus = 0 THEN "stdout" ELSE "stderr",
                      text, xstatus)
                   EXCEPT !.syslog = IF opt.syslog = 1 THEN opt.sloglev
                                     ELSE -1]
        b2 == [b EXCEPT !.out = Append(@, line)]
    IN  IF xstatus = 0 THEN b2
        ELSE IF proc = "parent"
        THEN [b2 EXCEPT !.parent = "exited",
                        !.pstatus = ExitStatus(xstatus)]
        ELSE [b2 EXCEPT !.pc = "exited", !.exitAt = b.pc,
                        !.status = ExitStatus(xstatus)]

StartUnchanged ==
    /\ UNCHANGED daemonVars
    /\ UNCHANGED <<argv, maskField, bitMap, printed>>

\* opts_t opt = gig_opts(argc, argv); if (opt.syslog) openlog(...)
ParseOptions ==
    /\ boot.pc = "opts"
    /\ LET r == gig_opts(argv)
       IN  /\ opt' = r.opt
           /\ boot' = [boot EXCEPT
                  !.out = r.out,
                  !.status = r.status,
                  !.pc = IF r.status # -1 THEN "exited" ELSE "openconf",
                  !.exitAt = IF r.status # -1 THEN "opts" ELSE "",
                  !.syslogOpen = r.status = -1 /\ r.opt.syslog # 0]
    /\ StartUnchanged

\* bug variant: a configuration file that cannot be opened is only reported
OpenConfigGoesOn(ok) ==
    /\ boot.pc = "openconf"
    /\ boot' = IF ok THEN [boot EXCEPT !.config = "open", !.pc = "reopen"]
               ELSE logx([boot EXCEPT !.config = "failed", !.pc = "reopen"],
                         "main", 0, "Error opening configuration file")
    /\ UNCHANGED opt
    /\ StartUnchanged

\* configFile = fopen(opt.config, "r"); NULL: logx(1, ...)
OpenConfig(ok) ==
    /\ boot.pc = "openconf"
    /\ boot' = IF ok THEN [boot EXCEPT !.config = "open", !.pc = "reopen"]
               ELSE logx([boot EXCEPT !.config = "failed"], "main", 1,
                         "Error opening configuration file")
    /\ UNCHANGED opt
    /\ StartUnchanged

FreopenResults == {"ok", "nostdout", "nostderr"}

\* if (opt.log2file) reopenLogs(opt): stdout, then stderr, are reopened on
\* the log file in append mode, which creates it
ReopenLogs(res) ==
    /\ boot.pc = "reopen"
    /\ boot' =
          IF opt.log2file = 0 THEN [boot EXCEPT !.pc = "daemonize"]
          ELSE IF res = "ok"
          THEN [boot EXCEPT !.logFile = TRUE, !.pc = "daemonize"]
          ELSE IF res = "nostdout"
          THEN logx(boot, "main", 1, "Error opening log file for stdout")
          ELSE logx([boot EXCEPT !.logFile = TRUE], "main", 1,
                    "Error opening log file for stderr")
    /\ UNCHANGED opt
    /\ StartUnchanged

\* if (opt.daemon) { pid = fork(); ... }: the child goes on in main, the
\* original process turns to the pid file
Daemonize(forkOk) ==
    /\ boot.pc = "daemonize"
    /\ boot' =
          IF opt.daemon = 0 THEN [boot EXCEPT !.pc = "init"]
          ELSE IF forkOk
          THEN [boot EXCEPT !.parent = "pidfile", !.pc = "setsid"]
          ELSE logx(boot, "main", 2, "Unable to fork daemon process")
    /\ UNCHANGED opt
    /\ StartUnchanged

\* the original parent: fopen(opt.pidfile, "w"); NULL: kill(pid, SIGTERM)
\* and logx(1, ...); else the child's pid and a newline, exit(EXIT_SUCCESS)
WritePidFile(ok) ==
    /\ boot.parent = "pidfile"
    /\ boot' =
          IF ok
          THEN [boot EXCEPT !.pidFile = <<"pid", "\n">>,
                            !.parent = "exited",
                            !.pstatus = EXIT_SUCCESS]
          ELSE logx([boot EXCEPT !.pidFileFailed = TRUE, !.pending = TRUE],
                    "parent", 1, "Could not create pid file, killing daemon")
    /\ UNCHANGED opt
    /\ StartUnchanged

SetsidResults == {"ok", "nosetsid", "nochdir"}

\* the child: setsid, stdin from /dev/null, chdir("/")
Setsid(res) ==
    /\ boot.pc = "setsid"
    /\ boot' =
          IF res = "ok" THEN [boot EXCEPT !.pc = "init"]
          ELSE IF res = "nosetsid"
          THEN logx(boot, "main", 2, "Unable to set new process group")
          ELSE logx(boot, "main", 2,
                    "Unable to change working directory to root")
    /\ UNCHANGED opt
    /\ StartUnchanged

\* logx(0, opt, "daemon initialization"); instanceHandle = inotify_init()
StartDaemon(ok) ==
    /\ boot.pc = "init"
    /\ boot' =
          LET b == logx(boot, "main", 0, "daemon initialization")
          IN  IF ok THEN [b EXCEPT !.instance = TRUE, !.pc = "load"]
              ELSE logx(b, "main", 4, "Unable to initialize iNotify")
    /\ UNCHANGED opt
    /\ StartUnchanged

\* the load loop, the end-of-file test, and the sigaction calls that
\* install signalTrap
LoadAndTrap(ok) ==
    /\ boot.pc = "load"
    /\ boot' = IF ok THEN [boot EXCEPT !.config = "closed", !.pc = "traps"]
               ELSE logx(boot, "main", 5, "Error reading configuration file")
    /\ UNCHANGED opt
    /\ StartUnchanged

\* the first read(instanceHandle, ...) of the loop blocks
StartRead ==
    /\ boot.pc = "traps"
    /\ boot' = [boot EXCEPT !.pc = "read"]
    /\ UNCHANGED opt
    /\ StartUnchanged

\* the SIGTERM of the original parent reaches the child: before the traps
\* are installed the default action ends it; after that signalTrap stores
\* the number, and a read in progress fails with EINTR, which the loop
\* answers with logx(0, ...) and exit(EXIT_SUCCESS)
TermArrives ==
    /\ boot.pending
    /\ boot' =
          IF boot.pc \in {"setsid", "init", "load"}
          THEN [boot EXCEPT !.pending = FALSE, !.pc = "killed"]
          ELSE IF boot.pc = "traps"
          THEN [boot EXCEPT !.pending = FALSE, !.caught = SIGTERM]
          ELSE IF boot.pc = "read"
          THEN [logx(boot, "main", 0,
                     "gidget event wait terminated by signal, shutting down.")
                  EXCEPT !.pending = FALSE, !.caught = SIGTERM,
                         !.pc = "exited", !.exitAt = "read",
                         !.status = EXIT_SUCCESS]
          ELSE [boot EXCEPT !.pending = FALSE]
    /\ UNCHANGED opt
    /\ StartUnchanged

\* a step of the process that runs main forward
MainStep ==
    \/ ParseOptions
    \/ \E ok \in BOOLEAN : OpenConfig(ok)
    \/ \E res \in FreopenResults : ReopenLogs(res)
    \/ \E ok \in BOOLEAN : Daemonize(ok)
    \/ \E res \in SetsidResults : Setsid(res)
    \/ \E ok \in BOOLEAN : StartDaemon(ok)
    \/ \E ok \in BOOLEAN : LoadAndTrap(ok)
    \/ StartRead

InitStart ==
    /\ opt = DefaultOpt
    /\ DaemonIdle
    /\ argv \in CommandLines
    /\ boot = BootStart
    /\ maskField = NoField
    /\ bitMap = {}
    /\ printed = NoPrint

NextStart ==
    \/ MainStep
    \/ \E ok \in BOOLEAN : WritePidFile(ok)
    \/ TermArrives

SpecStart == InitStart /\ [][NextStart]_vars

\* C24: when the configuration file cannot be opened the process has
\* reported it through logx and exited with a non-zero status, and at that
\* point no log file has been created, no daemon forked, no pid file
\* written and no watch instance created.
C24_ConfigOpenedFirst ==
    boot.config = "failed" =>
        /\ boot.pc = "exited"
        /\ boot.exitAt = "openconf"
        /\ boot.status # 0
        /\ boot.out # <<>>
        /\ boot.out[Len(boot.out)].via = "logx"
        /\ boot.out[Len(boot.out)].stream = "stderr"
        /\ ~boot.logFile
        /\ boot.parent = "none"
        /\ boot.pidFile = <<>>
        /\ ~boot.pidFileFailed
        /\ ~boot.instance

C24_Witness ==
    /\ boot.config = "failed"
    /\ boot.pc = "exited"
    /\ boot.status = 1
    /\ opt.daemon = 1
    /\ opt.log2file = 1
    /\ opt.pidfile = "f"

\* the daemon child is gone: it exited or a signal ended it
ChildTerminated == boot.pc \in {"exited", "killed"}

\* C25 (as claimed): once the original parent of daemon mode has exited,
\* either it exited 0 and the pid file holds the child's pid and a newline,
\* or the pid file could not be created, it exited non-zero after sending
\* SIGTERM, and the child terminates: it has terminated, or the signal is
\* still on its way, or the child can still take a step by itself.
C25_PidFileOrNoDaemon ==
    boot.parent = "exited" =>
        \/ /\ boot.pstatus = EXIT_SUCCESS
           /\ ~boot.pidFileFailed
           /\ boot.pidFile = <<"pid", "\n">>
        \/ /\ boot.pstatus # EXIT_SUCCESS
           /\ boot.pidFileFailed
           /\ \/ ChildTerminated
              \/ boot.pending
              \/ ENABLED MainStep

\* the lines a process of the start has written, in order
LinesOf(proc) == SelectSeq(boot.out, LAMBDA l : l.proc = proc)

\* the process wrote its last line through logx called with this status
LoggedLast(proc, status) ==
    LET lines == LinesOf(proc)
    IN  /\ lines # <<>>
        /\ lines[Len(lines)].via = "logx"
        /\ lines[Len(lines)].xstatus = status

\* logx called with a non-zero status is the last thing its process did, and
\* the process exited with that status; called with 0 it returned
LogxExitsWithItsStatus ==
    /\ \A proc \in {"main", "parent"} :
          \A k \in 1..Len(LinesOf(proc)) :
             LET line == LinesOf(proc)[k]
             IN  (line.via = "logx" /\ line.xstatus # 0)
                    => /\ k = Len(LinesOf(proc))
                       /\ IF proc = "main"
                          THEN boot.pc = "exited"
                               /\ boot.status = line.xstatus
                          ELSE boot.parent = "exited"
                               /\ boot.pstatus = line.xstatus
    /\ (boot.pc = "exited" /\ LoggedLast("main", 0))
          => boot.status = EXIT_SUCCESS /\ boot.exitAt = "read"

\* the daemon of the loop, its workers and their grandchildren: a non-zero
\* exit status comes with the line logx wrote for it
LoopExitsLogged ==
    /\ (dpc = "exited" /\ dstatus # EXIT_SUCCESS) => dlog # ""
    /\ \A i \in 1..Len(workers) :
          /\ (workers[i].pc = "exited" /\ workers[i].status # EXIT_SUCCESS)
                => workers[i].log # ""
          /\ (workers[i].gpc = "done" /\ workers[i].cstatus.exited
                /\ workers[i].cstatus.code \in 26..29)
                => workers[i].glog # ""

PlainFlags == {"-d", "-v"}

\* the command line ends with -s, after plain flags only
SyslogBare ==
    /\ Len(argv) >= 1
    /\ argv[Len(argv)] = "-s"
    /\ \A k \in 1..(Len(argv) - 1) : argv[k] \in PlainFlags

\* the command line ends with -s and this argument, after plain flags only
SyslogWith(token) ==
    /\ Len(argv) >= 2
    /\ argv[Len(argv) - 1] = "-s"
    /\ argv[Len(argv)] = token
    /\ \A k \in 1..(Len(argv) - 2) : argv[k] \in PlainFlags

\* every line logx wrote was also handed to syslog at this level
Duplicated(level) ==
    \A k \in 1..Len(boot.out) :
        boot.out[k].via = "logx" => boot.out[k].syslog = level

\* C27 (as claimed): once the options are parsed, -s 7 has enabled the
\* system-log copy at level 7, -s without an argument has enabled it at
\* level 3, and -s with any other argument has ended the process with 1.
C27_SyslogOption ==
    boot.pc # "opts" =>
        /\ SyslogWith("7")
              => /\ boot.exitAt # "opts"
                 /\ opt.syslog = 1 /\ opt.sloglev = 7
                 /\ boot.syslogOpen /\ Duplicated(7)
        /\ SyslogBare
              => /\ boot.exitAt # "opts"
                 /\ opt.syslog = 1 /\ opt.sloglev = 3
                 /\ boot.syslogOpen /\ Duplicated(3)
        /\ \A token \in ArgTokens \ {"7"} :
              SyslogWith(token) => boot.exitAt = "opts" /\ boot.status = 1

\* what getopt makes of the command line
GetoptReturns == getopt(argv, 1).returns
GetoptOperands == getopt(argv, 1).operands

\* an unknown flag, a missing argument of -c, -l or -p, an over-long name,
\* or more than one operand
UsageError ==
    \/ \E k \in 1..Len(GetoptReturns) :
          LET r == GetoptReturns[k]
          IN  \/ r.o = "?"
              \/ r.o = ":" /\ r.optopt \in {"-c", "-l", "-p"}
              \/ r.o = "-c" /\ strlen(r.optarg) > MAX_CONFIG_NAME_LEN
              \/ r.o = "-l" /\ strlen(r.optarg) > MAX_LOG_NAME_LEN
              \/ r.o = "-p" /\ strlen(r.optarg) > MAX_PID_NAME_LEN
    \/ Len(GetoptOperands) > 1
    \/ /\ Len(GetoptOperands) = 1
       /\ strlen(GetoptOperands[1]) > MAX_CONFIG_NAME_LEN

\* C28 (as claimed): a command line with a usage error ends the process in
\* gig_opts with status 1: the configuration file is never opened and
\* nothing else has been done.
C28_UsageErrorsExitFirst ==
    (boot.pc # "opts" /\ UsageError) =>
        /\ boot.pc = "exited"
        /\ boot.exitAt = "opts"
        /\ boot.status = 1
        /\ boot.config = "closed"
        /\ ~boot.syslogOpen
        /\ ~boot.logFile
        /\ boot.parent = "none"

(***************************************************************************)
(* stringifyEventBits (lines 1241-1304): the verbose dump of an event      *)
(* mask.  A 32-bit mask is the set of its bit positions (bit 0 = LSB).     *)
(***************************************************************************)

MaxBits == 2

MaskBits == 0..31

\* 1 << i for a set of positions is the set itself; the synthetic masks of
\* <sys/inotify.h> used at lines 1277, 1282 and 1288.
IN_CLOSE == {3, 4}

IN_MOVE == {6, 7}

IN_ALL_EVENTS == 0..11

IN_ISDIR == 1073741824

\* The bit positions of a mask given as a number below 2^31.
BitSet(n) == {i \in 0..30 : (n \div (2 ^ i)) % 2 = 1}

\* Lines 1247-1266: the entries of ezName that are assigned.
ezName ==
    (0 :> "IN_ACCESS") @@ (1 :> "IN_MODIFY") @@ (2 :> "IN_ATTRIB") @@
    (3 :> "IN_CLOSE_WRITE") @@ (4 :> "IN_CLOSE_NOWRITE") @@
    (5 :> "IN_OPEN") @@ (6 :> "IN_MOVED_FROM") @@ (7 :> "IN_MOVED_TO") @@
    (8 :> "IN_CREATE") @@ (9 :> "IN_DELETE") @@
    (10 :> "IN_DELETE_SELF") @@ (11 :> "IN_MOVE_SELF") @@
    (13 :> "IN_UNMOUNT") @@ (14 :> "IN_Q_OVERFLOW") @@
    (15 :> "IN_IGNORED") @@ (24 :> "IN_ONLYDIR") @@
    (25 :> "IN_DONT_FOLLOW") @@ (29 :> "IN_MASK_ADD") @@
    (30 :> "IN_ISDIR") @@ (31 :> "IN_ONESHOT")

\* ezName[i] is never assigned for the other positions: printing it with %s
\* reads an indeterminate pointer, which either faults or prints whatever
\* bytes it points at.
Uninitialized == {"fault", "garbage"}

\* Lines 1269-1275: one "name(bit)" per bit set, in ascending order.
RECURSIVE NameLoop(_, _, _, _)
NameLoop(i, mask, out, ub) ==
    IF i = 32 THEN out
    ELSE IF i \notin mask THEN NameLoop(i + 1, mask, out, ub)
    ELSE IF i \in DOMAIN ezName
         THEN NameLoop(i + 1, mask,
                       [out EXCEPT !.names = Append(@, ezName[i])], ub)
    ELSE IF ub = "fault" THEN [out EXCEPT !.fault = TRUE]
    ELSE NameLoop(i + 1, mask,
                  [out EXCEPT !.names = Append(@, "(garbage)")], ub)

\* Lines 1277-1300, after the loop.
stringifyEventBits(mask, ub) ==
    LET looped == NameLoop(0, mask, [names |-> <<>>, fault |-> FALSE], ub)
        close  == IF IN_CLOSE \cap mask # {}
                  THEN Append(looped.names, "IN_CLOSE") ELSE looped.names
        move   == IF IN_MOVE \cap mask # {}
                  THEN Append(close, "IN_MOVE") ELSE close
        k      == mask \ (IN_ALL_EVENTS \cup BitSet(IN_ISDIR)
                            \cup BitSet(IN_UNMOUNT)
                            \cup BitSet(IN_Q_OVERFLOW)
                            \cup BitSet(IN_IGNORED))
        hits   == Len(move) + (IF k # {} THEN 1 ELSE 0)
    IN  IF looped.fault
        THEN [done |-> TRUE, fault |-> TRUE, names |-> looped.names,
              unrecognized |-> {}, noString |-> FALSE]
        ELSE [done |-> TRUE, fault |-> FALSE, names |-> move,
              unrecognized |-> k, noString |-> hits = 0]

\* The masks with at most n bits set.
RECURSIVE MasksOf(_)
MasksOf(n) ==
    IF n = 0 THEN {{}}
    ELSE LET fewer == MasksOf(n - 1)
         IN  fewer \cup {m \cup {i} : m \in fewer, i \in MaskBits}

Stringify ==
    /\ ~printed.done
    /\ \E ub \in Uninitialized : printed' = stringifyEventBits(bitMap, ub)
    /\ UNCHANGED mainVars
    /\ UNCHANGED <<argv, boot, maskField, bitMap>>

InitBits ==
    /\ MainIdle
    /\ argv = <<>>
    /\ boot = NoBoot
    /\ maskField = NoField
    /\ bitMap \in MasksOf(MaxBits)
    /\ printed = [done |-> FALSE]

NextBits == Stringify

SpecBits == InitBits /\ [][NextBits]_vars

\* The mask a list of printed names stands for: each table name is its bit,
\* IN_CLOSE is bits 3|4 and IN_MOVE is bits 6|7.
BitsOfName(name) ==
    IF name = "IN_CLOSE" THEN IN_CLOSE
    ELSE IF name = "IN_MOVE" THEN IN_MOVE
    ELSE {i \in DOMAIN ezName : ezName[i] = name}

ReEncode(names) == UNION {BitsOfName(names[n]) : n \in DOMAIN names}

\* C29 (as claimed): for a mask whose bits all come from the bit table, the
\* names printed re-encode to exactly that mask, and no bit that has a name
\* in the table is reported as an unrecognized flag.
C29_MaskRoundTrip ==
    (printed.done /\ printed # NoPrint /\ bitMap \subseteq DOMAIN ezName) =>
        /\ ReEncode(printed.names) = bitMap
        /\ printed.unrecognized \cap DOMAIN ezName = {}

\* C30 (as claimed): the index the worker looks its trick up with, the
\* event's watch descriptor minus one, lies in 0 .. trickCount - 1 for every
\* dispatched event, the queue-overflow record (descriptor -1) included.
C30_LookupInsideTable ==
    \A i \in 1..Len(workers) :
        workers[i].pc # "start" =>
            (workers[i].event.wd - 1) \in 0..(trickCount - 1)

(***************************************************************************)
(* The worker's buffers at their limits: one queued event for a table      *)
(* whose second trick watches a path longer than the file-name limit of    *)
(* its filesystem, with event names up to that limit.                      *)
(***************************************************************************)
PathDeep == <<"/", "d", "/", "e", "/", "f", "/", "g",
              "/", "h", "/", "i", "/", "j", "/", "k">>

DeepLine == [ValidLine(PathA) EXCEPT !.pony.fileName = PathDeep]

BuildConfigs == { <<ValidLine(PathA), DeepLine>> }

\* names that bring the path assembled under PathA to the limit and over it
LongNames ==
    { Rep("x", pathconf(PathA) - 3), Rep("x", pathconf(PathA) - 2),
      Rep(Apostrophe, 4), Rep(Apostrophe, 5) }

BuildEvents ==
    FirstEvents
    \cup { [seq |-> 1, wd |-> wd, mask |-> IN_CREATE, name |-> name] :
             wd \in 1..MaxLines, name \in LongNames }

InitBuild ==
    /\ opt = [log2file |-> FALSE]
    /\ dpc = "top"
    /\ dstatus = -1
    /\ dlog = "daemon initialization"
    /\ \E lines \in BuildConfigs :
          /\ lineNo = Len(lines)
          /\ trickHeap = Loaded(lines)
          /\ kwatches = [i \in 1..Len(lines) |-> lines[i].pony.fileName]
    /\ maxNameLen = pathconf(PathA)
    /\ maxLineLen \in {ShortLineMax, LINE_MAX}
    /\ confFile = <<>>
    /\ confPos = 1
    /\ confLog = <<>>
    /\ SideIdle
    /\ queue \in { <<e>> : e \in BuildEvents }
    /\ evCount = 1
    /\ signalCaught = 0
    /\ nSignals = 0
    /\ len = 0
    /\ buf = <<>>
    /\ nReads = 0
    /\ reopens = 0
    /\ workers = <<>>

NextBuild == NextEvent

SpecBuild == InitBuild /\ [][NextBuild]_vars

\* a worker that took its trick from inside the table
Looked(w) == w.pc # "start" /\ w.event.wd \in 1..trickCount

\* C31 (as claimed): for every event either the assembled path with its
\* terminator fits the path buffer of maxNameLen bytes, or the worker exits
\* with the overflow diagnostic (status 13) with nothing stored beyond the
\* buffer and no command composed.
C31_PathFitsOrWorkerDies ==
    \A i \in 1..Len(workers) :
        Looked(workers[i]) =>
            LET w == workers[i]
                trick == trickHeap[w.event.wd]
                path == AssemblePath(trick.fileName, w.event.name)
            IN  \/ Len(path) + 1 <= maxNameLen
                \/ /\ w.pc = "exited"
                   /\ w.status = 13
                   /\ w.command = <<>>
                   /\ ~Overrun(trick.fileName, w.event.name)

\* C32 (as claimed): a worker that built the command has a command that,
\* with its terminator, fits the command buffer of maxLineLen bytes; a worker
\* that ended at the length test ended with status 22 and an empty buffer.
C32_CommandFitsOrWorkerDies ==
    \A i \in 1..Len(workers) :
        Looked(workers[i]) =>
            /\ workers[i].command # <<>>
                  => Len(workers[i].command) + 1 <= maxLineLen
            /\ workers[i].log = "command too long for shell"
                  => /\ workers[i].status = 22
                     /\ workers[i].command = <<>>

\* a worker whose grandchild has made its calls
Forked(w) == w.pc # "start" /\ w.gpc \in {"running", "done"}

\* C33: the grandchild's successful calls are a prefix of chdir, setgid,
\* setuid, execl; the script runs only after all four, and then in the
\* account's home directory with the account's primary group and user id.
C33_GrandchildOrder ==
    \A i \in 1..Len(workers) :
        Forked(workers[i]) =>
            LET w == workers[i]
                pwd == Account(w.pony.userid)
            IN  /\ \E n \in 0..4 : w.gdone = SubSeq(GrandchildCalls, 1, n)
                /\ (w.gpc = "running" \/ w.glog = "")
                      => /\ w.gdone = GrandchildCalls
                         /\ w.gcred.cwd = pwd.dir
                         /\ w.gcred.gid = pwd.gid
                         /\ w.gcred.uid = pwd.uid
                /\ w.glog # "" => w.gdone = CallsBefore(w.glog)

\* the script of some worker runs after the four calls and has written
C33_Witness ==
    \E i \in 1..Len(workers) :
        /\ Forked(workers[i])
        /\ workers[i].gpc = "running"
        /\ workers[i].wrote > 0
        /\ workers[i].gdone = GrandchildCalls

\* C40 (as claimed): when the script is exec'd the grandchild's user id,
\* primary group and supplementary groups are those of the trick's account.
C40_ScriptCredentials ==
    \A i \in 1..Len(workers) :
        (Forked(workers[i]) /\ workers[i].gdone = GrandchildCalls) =>
            LET pwd == Account(workers[i].pony.userid)
            IN  /\ workers[i].gcred.uid = pwd.uid
                /\ workers[i].gcred.gid = pwd.gid
                /\ workers[i].gcred.groups = pwd.groups

\* C34: a worker whose grandchild was forked has the default SIGCHLD
\* disposition, not the daemon's auto-reap one, and its wait never fails:
\* once it has waited it ends with the status the grandchild left.
C34_WorkerReapsGrandchild ==
    \A i \in 1..Len(workers) :
        workers[i].gpc # "none" =>
            /\ workers[i].chld = "default"
            /\ ~WaitFails(workers[i])
            /\ workers[i].log # "execl mail FAILED"
            /\ workers[i].pc = "exited"
                  => workers[i].status = ShStatus(workers[i].cstatus)

\* a worker has waited for a grandchild that ended with a non-zero status
C34_Witness ==
    \E i \in 1..Len(workers) :
        /\ workers[i].gpc = "done"
        /\ workers[i].pc = "exited"
        /\ workers[i].cstatus.exited
        /\ workers[i].cstatus.code = 3
        /\ workers[i].status = 3

\* C35 (as claimed): a terminate or interrupt signal that interrupted the
\* read is not lost to a later hangup: until the loop has examined the flag
\* it keeps naming a terminate or interrupt signal, and the daemon's next
\* step of its own is the shutdown.
C35_TerminateSurvivesHangup ==
    [][(dpc = "eintr" /\ signalCaught \in {SIGTERM, SIGINT})
          => \/ dpc' = "exited" /\ dstatus' = EXIT_SUCCESS
             \/ dpc' = "eintr" /\ signalCaught' \in {SIGTERM, SIGINT}]_vars

\* C36 (as claimed): no worker waits for its grandchild's exit while the
\* grandchild is blocked in a write to the full pipe that the worker has
\* stopped reading.
C36_WorkerNeverStarvesGrandchild ==
    \A i \in 1..Len(workers) :
        ~ ( /\ workers[i].pc = "wait"
            /\ workers[i].gpc = "blocked"
            /\ Len(workers[i].pipe) >= PipeCapacity )

\* the text between the two apostrophes the command is built with
Quoted(w) ==
    SubSeq(w.command, Len(w.pony.script) + 3,
           Len(w.command) - Len(EventMaskText(w.event.mask)) - 2)

\* C37 (as claimed): in every composed command the text between the two
\* apostrophes holds no apostrophe.
C37_QuotedTextHasNoApostrophe ==
    \A i \in 1..Len(workers) :
        (Assembled(workers[i]) /\ workers[i].command # <<>>) =>
            \A k \in DOMAIN Quoted(workers[i]) :
                Quoted(workers[i])[k] # Apostrophe

DeadTexts ==
    { "zero length string returned from inotify, daemon dead",
      "inotify returned FAIL, daemon dead" }

\* C38: after a read that returned zero bytes or a negative length without
\* a signal, the daemon's next step logs the daemon-dead line and exits with
\* a non-zero status; no worker is forked and no further read is made.
C38_FailedReadIsFatal ==
    [][(dpc = "got" /\ len <= 0)
          => /\ workers' = workers
             /\ nReads' = nReads
             /\ \/ dpc' = "got" /\ len' = len
                \/ /\ dpc' = "exited"
                   /\ dstatus' # 0
                   /\ dlog' \in DeadTexts]_vars

\* the daemon has ended on a read of zero bytes
C38_Witness ==
    /\ dpc = "exited"
    /\ len = 0
    /\ dstatus = 7
    /\ dlog \in DeadTexts

\* C39 (as claimed): a worker that has sent its mail has logged the number
\* of output bytes mailed without the first one, 0 for a single byte.
C39_MailedCountLogged ==
    \A i \in 1..Len(workers) :
        workers[i].mailslot = "closed" =>
            workers[i].mailLog = Len(workers[i].mailed) - 1

====
